---- MODULE Spec2Model ----
(***************************************************************************)
(* A model of the training engine: Dense and Activation layers, the SGD    *)
(* optimizer, the DataLoader batch iterator and the Sequential network.    *)
(* Doubles are modelled as integers; the inputs are chosen so that every   *)
(* division the code performs is exact.                                    *)
(***************************************************************************)
EXTENDS Integers, Sequences, FiniteSets, TLC

VARIABLES
    layers,          \* the layer objects (a caller's list, or Sequential::layers)
    is_initialized,  \* Sequential::is_initialized
    sgd,             \* the SGD optimizer object
    loader,          \* the DataLoader object
    cursor,          \* DataLoader::Iterator::cursor of the live iterator
    epoch,           \* what the running traversal of the loader has yielded
    optimizer,       \* the Optimizer object handed to Sequential::train
    training,        \* the position of the running Sequential::train call
    call,            \* the last call made and how it ended
    acc,             \* per layer: independent single-sample gradients summed since the last clear
    made             \* the calls made so far that the bounds count

vars == <<layers, is_initialized, sgd, loader, cursor, epoch, optimizer,
          training, call, acc, made>>

-----------------------------------------------------------------------------
(* Bounds of the model *)

MaxBackward == 2
MaxStep == 2
MaxBatchSize == 3
MaxRows == 4
MaxTrain == 2
MaxStepCount == 3
MaxLearningRate == 8
MaxTotalSteps == 3

-----------------------------------------------------------------------------
(* Vectors and matrices *)

Zeros(n) == [k \in 1..n |-> 0]

ZeroMatrix(r, c) == [i \in 1..r |-> Zeros(c)]

RECURSIVE SumSeq(_)
SumSeq(s) == IF s = <<>> THEN 0 ELSE s[1] + SumSeq(Tail(s))

Dot(a, b) == SumSeq([k \in 1..Len(a) |-> a[k] * b[k]])

Abs(v) == IF v < 0 THEN -v ELSE v

AllZeroVec(v) == \A k \in 1..Len(v) : v[k] = 0

AllZeroMat(m) == \A i \in 1..Len(m) : AllZeroVec(m[i])

\* the gradient of one sample alone: g x^T for the weights, g for the biases
SampleGrad(x, g) ==
    [w |-> [i \in 1..Len(g) |-> [j \in 1..Len(x) |-> g[i] * x[j]]], b |-> g]

MatAdd(a, b) == [i \in 1..Len(a) |-> [j \in 1..Len(a[i]) |-> a[i][j] + b[i][j]]]

VecAdd(a, b) == [i \in 1..Len(a) |-> a[i] + b[i]]

-----------------------------------------------------------------------------
(* DenseLayer *)

DenseLayer(in_features, out_features, init_params) ==
    [kind         |-> "Dense",
     input_size   |-> in_features,
     output_size  |-> out_features,
     weights      |-> IF init_params THEN ZeroMatrix(out_features, in_features) ELSE <<>>,
     biases       |-> IF init_params THEN Zeros(out_features) ELSE <<>>,
     grad_weights |-> ZeroMatrix(out_features, in_features),
     grad_biases  |-> Zeros(out_features),
     input_cache  |-> <<>>]

DenseForwardError(L, input) ==
    IF Len(input) # L.input_size THEN "invalid_argument"
    ELSE IF L.weights = <<>> \/ L.biases = <<>> THEN "runtime_error"
    ELSE "none"

DenseForwardOutput(L, input) ==
    [i \in 1..L.output_size |-> Dot(L.weights[i], input) + L.biases[i]]

\* a forward that caches its input before it checks it
DenseForwardCachesFirst(L, input) ==
    IF DenseForwardError(L, input) # "none"
    THEN [layer |-> [L EXCEPT !.input_cache = input],
          error |-> DenseForwardError(L, input), ret |-> <<>>]
    ELSE [layer |-> [L EXCEPT !.input_cache = input],
          error |-> "none",
          ret   |-> DenseForwardOutput(L, input)]

DenseForward(L, input) ==
    IF DenseForwardError(L, input) # "none"
    THEN [layer |-> L, error |-> DenseForwardError(L, input), ret |-> <<>>]
    ELSE [layer |-> [L EXCEPT !.input_cache = input],
          error |-> "none",
          ret   |-> DenseForwardOutput(L, input)]

DenseBackwardError(L, grad_output) ==
    IF Len(grad_output) # L.output_size THEN "invalid_argument"
    ELSE IF L.input_cache = <<>> THEN "runtime_error"
    ELSE "none"

\* a gradient with one entry per row of the weights
DenseGradInputByRows(L, grad_output) ==
    [j \in 1..L.output_size |->
        SumSeq([i \in 1..L.input_size |-> L.weights[j][i] * grad_output[j]])]

DenseGradInput(L, grad_output) ==
    [i \in 1..L.input_size |->
        SumSeq([j \in 1..L.output_size |-> L.weights[j][i] * grad_output[j]])]

\* a backward that stores the sample's gradient instead of adding it
DenseAccumulateOverwrite(L, grad_output) ==
    [L EXCEPT
        !.grad_weights = [i \in 1..L.output_size |-> [j \in 1..L.input_size |->
                             grad_output[i] * L.input_cache[j]]],
        !.grad_biases  = [i \in 1..L.output_size |-> grad_output[i]]]

DenseAccumulate(L, grad_output) ==
    [L EXCEPT
        !.grad_weights = [i \in 1..L.output_size |-> [j \in 1..L.input_size |->
                             L.grad_weights[i][j] + grad_output[i] * L.input_cache[j]]],
        !.grad_biases  = [i \in 1..L.output_size |->
                             L.grad_biases[i] + grad_output[i]]]

DenseBackward(L, grad_output) ==
    IF DenseBackwardError(L, grad_output) # "none"
    THEN [layer |-> L, error |-> DenseBackwardError(L, grad_output), ret |-> <<>>]
    ELSE [layer |-> DenseAccumulate(L, grad_output),
          error |-> "none",
          ret   |-> DenseGradInput(L, grad_output)]

\* a clear that forgets the bias gradients
DenseClearWeightsOnly(L) ==
    [L EXCEPT !.grad_weights = [i \in 1..Len(L.grad_weights) |->
                                   Zeros(Len(L.grad_weights[i]))]]

DenseClearGradients(L) ==
    [L EXCEPT
        !.grad_weights = [i \in 1..Len(L.grad_weights) |-> Zeros(Len(L.grad_weights[i]))],
        !.grad_biases  = Zeros(Len(L.grad_biases))]

\* a check of the row count alone
DenseSetWeightsErrorRowsOnly(L, new_weights) ==
    IF Len(new_weights) # L.output_size THEN "invalid_argument" ELSE "none"

DenseSetWeightsError(L, new_weights) ==
    IF Len(new_weights) # L.output_size THEN "invalid_argument"
    ELSE IF \E i \in 1..Len(new_weights) : Len(new_weights[i]) # L.input_size
         THEN "invalid_argument"
    ELSE "none"

DenseSetWeights(L, new_weights) ==
    IF DenseSetWeightsError(L, new_weights) # "none"
    THEN [layer |-> L, error |-> DenseSetWeightsError(L, new_weights)]
    ELSE [layer |-> [L EXCEPT !.weights = new_weights], error |-> "none"]

DenseSetBiasesError(L, new_biases) ==
    IF Len(new_biases) # L.output_size THEN "invalid_argument" ELSE "none"

DenseSetBiases(L, new_biases) ==
    IF DenseSetBiasesError(L, new_biases) # "none"
    THEN [layer |-> L, error |-> DenseSetBiasesError(L, new_biases)]
    ELSE [layer |-> [L EXCEPT !.biases = new_biases], error |-> "none"]

\* initializeParameters(in, out, ...) returns an out x in matrix; its entries
\* are the draws of the generator, here the matrix `drawn`
DenseInitializeWeights(L, drawn) == [L EXCEPT !.weights = drawn]

\* initializeParameters(output_size, 1, ...) returns 1 x output_size; row 0 is kept
DenseInitializeBiases(L, drawn) == [L EXCEPT !.biases = drawn[1]]

-----------------------------------------------------------------------------
(* ActivationLayer *)

ActivationTypes == {"RELU", "LINEAR", "SOFTMAX"}

\* enum class ActivationType
AllActivationTypes == {"RELU", "LEAKY_RELU", "SIGMOID", "TANH", "LINEAR", "SOFTMAX", "SELU"}

ActivationLayer(act_type) ==
    [kind |-> "Activation", activation_type |-> act_type, input_cache |-> <<>>]

\* softmax's outputs are not integers: they are kept as uninterpreted terms
applyActivation(x, act_type) ==
    CASE act_type = "RELU"    -> [i \in 1..Len(x) |-> IF x[i] > 0 THEN x[i] ELSE 0]
      [] act_type = "LINEAR"  -> x
      [] act_type = "SOFTMAX" -> [i \in 1..Len(x) |-> [softmax_of |-> x, at |-> i]]
      [] act_type = "LEAKY_RELU" ->
             [i \in 1..Len(x) |-> IF x[i] > 0 THEN x[i] ELSE [alpha_times |-> x[i]]]
      [] act_type = "SIGMOID" -> [i \in 1..Len(x) |-> [sigmoid_of |-> x[i]]]
      [] act_type = "TANH"    -> [i \in 1..Len(x) |-> [tanh_of |-> x[i]]]
      [] act_type = "SELU"    -> [i \in 1..Len(x) |-> [selu_of |-> x[i]]]

\* an activationDerivative whose softmax case computes nothing and returns
activationDerivativeErrorSoftmaxReturns(x, act_type) ==
    IF x = <<>> THEN "none"
    ELSE IF act_type \notin AllActivationTypes THEN "invalid_argument"
    ELSE "none"

activationDerivativeError(x, act_type) ==
    IF x = <<>> THEN "none"
    ELSE IF act_type = "SOFTMAX" THEN "logic_error"
    ELSE IF act_type \notin AllActivationTypes THEN "invalid_argument"
    ELSE "none"

activationDerivative(x, act_type) ==
    CASE act_type = "RELU"   -> [i \in 1..Len(x) |-> IF x[i] > 0 THEN 1 ELSE 0]
      [] act_type = "LINEAR" -> [i \in 1..Len(x) |-> 1]

ActivationForward(L, input) ==
    IF input = <<>>
    THEN [layer |-> L, error |-> "invalid_argument", ret |-> <<>>]
    ELSE [layer |-> [L EXCEPT !.input_cache = input],
          error |-> "none",
          ret   |-> applyActivation(input, L.activation_type)]

\* a backward that takes the softmax shortcut before looking at the cache
ActivationBackwardErrorSoftmaxFirst(L, grad_output) ==
    IF grad_output = <<>> THEN "invalid_argument"
    ELSE IF L.activation_type = "SOFTMAX" THEN "none"
    ELSE IF Len(L.input_cache) # Len(grad_output) THEN "logic_error"
    ELSE activationDerivativeError(L.input_cache, L.activation_type)

ActivationBackwardError(L, grad_output) ==
    IF grad_output = <<>> THEN "invalid_argument"
    ELSE IF Len(L.input_cache) # Len(grad_output) THEN "logic_error"
    ELSE IF L.activation_type = "SOFTMAX" THEN "none"
    ELSE activationDerivativeError(L.input_cache, L.activation_type)

ActivationBackward(L, grad_output) ==
    IF ActivationBackwardError(L, grad_output) # "none"
    THEN [layer |-> L, error |-> ActivationBackwardError(L, grad_output), ret |-> <<>>]
    ELSE IF L.activation_type = "SOFTMAX"
    THEN [layer |-> L, error |-> "none", ret |-> grad_output]
    ELSE [layer |-> L,
          error |-> "none",
          ret   |-> [i \in 1..Len(grad_output) |->
                        grad_output[i] * activationDerivative(L.input_cache, L.activation_type)[i]]]

\* virtual dispatch on the layer's dynamic type
LayerForward(L, input) ==
    IF L.kind = "Dense" THEN DenseForward(L, input) ELSE ActivationForward(L, input)

LayerBackward(L, grad_output) ==
    IF L.kind = "Dense" THEN DenseBackward(L, grad_output)
    ELSE ActivationBackward(L, grad_output)

-----------------------------------------------------------------------------
(* SGD *)

\* std::function<double(double, size_t)> holding nothing (nullptr)
NoScheduler == [kind |-> "none", step_size |-> 0, gamma |-> 0]

\* Schedulers::step(step_size, gamma)
StepScheduler(step_size, gamma) == [kind |-> "step", step_size |-> step_size, gamma |-> gamma]

RECURSIVE Pow(_, _)
Pow(b, e) == IF e = 0 THEN 1 ELSE b * Pow(b, e - 1)

\* the call lr_scheduler(init, step): init * pow(gamma, floor(step / step_size))
Schedule(scheduler, init, step) ==
    init * Pow(scheduler.gamma, step \div scheduler.step_size)

SGD(lr, momentum_) ==
    [learning_rate    |-> lr,
     initial_lr       |-> lr,
     momentum         |-> momentum_,
     clip_value_      |-> 0,
     velocity_weights |-> <<>>,    \* layer identity -> matrix; empty map
     velocity_biases  |-> <<>>,
     step_count       |-> 0,
     lr_scheduler     |-> NoScheduler]

\* the constructor called with a scheduler
SGDWithScheduler(lr, momentum_, scheduler) ==
    [SGD(lr, momentum_) EXCEPT !.lr_scheduler = scheduler]

\* an afterStep that feeds the schedule the current learning rate
SGDafterStepFromCurrent(opt) ==
    LET counted == [opt EXCEPT !.step_count = @ + 1]
    IN  IF counted.lr_scheduler.kind # "none"
        THEN [counted EXCEPT !.learning_rate =
                  Schedule(counted.lr_scheduler, counted.learning_rate, counted.step_count)]
        ELSE counted

SGDafterStep(opt) ==
    LET counted == [opt EXCEPT !.step_count = @ + 1]
    IN  IF counted.lr_scheduler.kind # "none"
        THEN [counted EXCEPT !.learning_rate =
                  Schedule(counted.lr_scheduler, counted.initial_lr, counted.step_count)]
        ELSE counted

SGDresetStepCount(opt) == [opt EXCEPT !.step_count = 0]

SGDsetLRScheduler(opt, scheduler) == [opt EXCEPT !.lr_scheduler = scheduler]

\* a setLearningRate that resets initial_lr whether or not a schedule is installed
SGDsetLearningRateBoth(opt, lr) == [opt EXCEPT !.learning_rate = lr, !.initial_lr = lr]

SGDsetLearningRate(opt, lr) ==
    LET assigned == [opt EXCEPT !.learning_rate = lr]
    IN  IF assigned.lr_scheduler.kind = "none"
        THEN [assigned EXCEPT !.initial_lr = lr]
        ELSE assigned

SGDdecayLearningRate(opt, decay_factor) ==
    LET decayed == [opt EXCEPT !.learning_rate = @ * decay_factor]
    IN  IF decayed.lr_scheduler.kind = "none"
        THEN [decayed EXCEPT !.initial_lr = decayed.learning_rate]
        ELSE decayed

SGDsetGradientClip(opt, clip) == [opt EXCEPT !.clip_value_ = clip]

SGDsetMomentum(opt, m) == [opt EXCEPT !.momentum = m]

\* const double lr = this->learning_rate / batch_size
NormalizedLearningRate(learning_rate, batch_size) == learning_rate \div batch_size

\* a velocity that forgets its previous value
NewVelocityNoHistory(m, v, lr, grad) == lr * grad

NewVelocity(m, v, lr, grad) == m * v + lr * grad

\* the lazily created velocity buffers of layer k
InitVelocity(opt, k, L) ==
    IF opt.momentum > 0 /\ k \notin DOMAIN opt.velocity_weights
    THEN [opt EXCEPT
            !.velocity_weights = (k :> ZeroMatrix(Len(L.weights),
                                       IF L.weights = <<>> THEN 0 ELSE Len(L.weights[1]))) @@ @,
            !.velocity_biases  = (k :> Zeros(Len(L.biases))) @@ @]
    ELSE opt

\* velocity_weights[layer][i][j] and velocity_biases[layer][i] are indexed
\* without a bounds check: a buffer smaller than the parameters is written
\* out of bounds (an empty std::vector: a null dereference)
VelocityFits(opt, k, L) ==
    /\ Len(opt.velocity_weights[k]) >= Len(L.weights)
    /\ \A i \in 1..Len(L.weights) :
           Len(opt.velocity_weights[k][i]) >= Len(L.weights[i])
    /\ Len(opt.velocity_biases[k]) >= Len(L.biases)

UpdatedVelocity(opt, k, L, lr) ==
    [opt EXCEPT
        !.velocity_weights[k] =
            [i \in 1..Len(L.weights) |-> [j \in 1..Len(L.weights[i]) |->
                NewVelocity(opt.momentum, @[i][j], lr, L.grad_weights[i][j])]],
        !.velocity_biases[k] =
            [i \in 1..Len(L.biases) |->
                NewVelocity(opt.momentum, @[i], lr, L.grad_biases[i])]]

NewWeights(opt1, k, L, lr) ==
    [i \in 1..Len(L.weights) |-> [j \in 1..Len(L.weights[i]) |->
        IF opt1.momentum > 0
        THEN L.weights[i][j] - opt1.velocity_weights[k][i][j]
        ELSE L.weights[i][j] - lr * L.grad_weights[i][j]]]

NewBiases(opt1, k, L, lr) ==
    [i \in 1..Len(L.biases) |->
        IF opt1.momentum > 0
        THEN L.biases[i] - opt1.velocity_biases[k][i]
        ELSE L.biases[i] - lr * L.grad_biases[i]]

\* an update that leaves the gradients in place
CommitUpdateNoClear(L, new_weights, new_biases) ==
    IF DenseSetWeights(L, new_weights).error # "none"
    THEN DenseSetWeights(L, new_weights)
    ELSE DenseSetBiases(DenseSetWeights(L, new_weights).layer, new_biases)

\* setWeights(new_weights); setBiases(new_biases); clearGradients(); the first
\* setter that throws ends the update, keeping what was done before it
CommitUpdate(L, new_weights, new_biases) ==
    IF DenseSetWeights(L, new_weights).error # "none"
    THEN DenseSetWeights(L, new_weights)
    ELSE IF DenseSetBiases(DenseSetWeights(L, new_weights).layer, new_biases).error # "none"
    THEN DenseSetBiases(DenseSetWeights(L, new_weights).layer, new_biases)
    ELSE [layer |-> DenseClearGradients(
                        DenseSetBiases(DenseSetWeights(L, new_weights).layer,
                                       new_biases).layer),
          error |-> "none"]

updateLayer(opt, k, L, batch_size) ==
    IF L.kind # "Dense" THEN [opt |-> opt, layer |-> L, error |-> "none"]
    ELSE LET opt0 == InitVelocity(opt, k, L)
             lr   == NormalizedLearningRate(opt.learning_rate, batch_size)
         IN  IF opt0.momentum > 0 /\ ~VelocityFits(opt0, k, L)
             THEN [opt |-> opt0, layer |-> L, error |-> "crash"]
             ELSE LET opt1 == IF opt0.momentum > 0
                              THEN UpdatedVelocity(opt0, k, L, lr) ELSE opt0
                      done == CommitUpdate(L, NewWeights(opt1, k, L, lr),
                                              NewBiases(opt1, k, L, lr))
                  IN  [opt |-> opt1, layer |-> done.layer, error |-> done.error]

\* for (BaseLayer* layer : layers) updateLayer(layer, batch_size), from layer k
\* on; the first failure ends the loop
RECURSIVE StepFrom(_, _, _, _)
StepFrom(opt, Ls, k, batch_size) ==
    IF k > Len(Ls) THEN [opt |-> opt, layers |-> Ls, error |-> "none"]
    ELSE LET u == updateLayer(opt, k, Ls[k], batch_size)
         IN  IF u.error # "none"
             THEN [opt |-> u.opt, layers |-> [Ls EXCEPT ![k] = u.layer], error |-> u.error]
             ELSE StepFrom(u.opt, [Ls EXCEPT ![k] = u.layer], k + 1, batch_size)

\* a step that prepares the velocity buffers before it checks batch_size
SGDstepAllocatesFirst(opt, Ls, batch_size) ==
    IF batch_size = 0
    THEN [opt |-> IF Len(Ls) >= 1 /\ Ls[1].kind = "Dense" /\ opt.momentum > 0
                  THEN InitVelocity(opt, 1, Ls[1]) ELSE opt,
          layers |-> Ls, error |-> "invalid_argument"]
    ELSE StepFrom(opt, Ls, 1, batch_size)

\* a step that advances the schedule itself
SGDstepAdvancesSchedule(opt, Ls, batch_size) ==
    IF batch_size = 0
    THEN [opt |-> opt, layers |-> Ls, error |-> "invalid_argument"]
    ELSE [StepFrom(opt, Ls, 1, batch_size) EXCEPT !.opt = SGDafterStep(@)]

SGDstep(opt, Ls, batch_size) ==
    IF batch_size = 0
    THEN [opt |-> opt, layers |-> Ls, error |-> "invalid_argument"]
    ELSE StepFrom(opt, Ls, 1, batch_size)

-----------------------------------------------------------------------------
(* The inputs the calls are made with *)

\* learning rates are multiples of every batch size, so that
\* learning_rate / batch_size is exact
LearningRates == {2}

BatchSizes == {0, 1, 2}

Momenta == {0, 2}

ClipValues == {0, 1}

\* the shapes (in_features, out_features) the layers are built with
Shapes == {<<1, 1>>, <<2, 1>>, <<1, 2>>}

\* a ramp 1, 2, ... and a vector with mixed signs
Ramp(n) == [k \in 1..n |-> k]

Mixed(n) == [k \in 1..n |-> IF k = 1 THEN -1 ELSE 1]

\* vectors of every length from 0 to 3
Vectors == {Ramp(n) : n \in 0..3} \cup {Mixed(n) : n \in 1..3}

\* the matrices a generator may draw, and the matrices a caller may pass
Ones(r, c) == [i \in 1..r |-> [j \in 1..c |-> 1]]

Skew(r, c) == [i \in 1..r |-> [j \in 1..c |-> i - j]]

Drawn(r, c) == {Ones(r, c), Skew(r, c)}

Matrices(L) == Drawn(L.output_size, L.input_size)
                   \cup {Ones(L.output_size + 1, L.input_size),
                         Ones(L.output_size, L.input_size + 1)}

NoAcc == [w |-> <<>>, b |-> <<>>, x |-> <<>>, forwarded |-> FALSE, n |-> 0, valid |-> FALSE]

\* the reference sums start where the accumulators of a layer are zero
FreshAcc(L, old) ==
    IF L.kind = "Dense" /\ AllZeroMat(L.grad_weights) /\ AllZeroVec(L.grad_biases)
    THEN [old EXCEPT !.w = ZeroMatrix(L.output_size, L.input_size),
                     !.b = Zeros(L.output_size), !.n = 0, !.valid = TRUE]
    ELSE [old EXCEPT !.valid = FALSE]

NoneMade == [backward |-> 0, step |-> 0, train |-> 0, refused |-> 0, afterStep |-> 0,
             scheduled |-> 0]

NoCall == [op |-> "none", result |-> "ok", arg |-> 0]

Outcome(error) == IF error = "none" THEN "ok" ELSE error

Alive == call.result # "crash"

-----------------------------------------------------------------------------
(* Calls on the layers and on the optimizer *)

Forward(k, x) ==
    /\ Alive
    /\ LET r == LayerForward(layers[k], x)
       IN  /\ layers' = [layers EXCEPT ![k] = r.layer]
           /\ call' = [op |-> "forward", result |-> Outcome(r.error), arg |-> k]
           /\ acc' = IF r.error = "none"
                     THEN [acc EXCEPT ![k].x = x, ![k].forwarded = TRUE]
                     ELSE acc
    /\ UNCHANGED <<optimizer, training, is_initialized, sgd, loader, cursor, epoch, made>>

Backward(k, g) ==
    /\ Alive
    /\ LET r == LayerBackward(layers[k], g)
       IN  /\ r.error = "none" => made.backward < MaxBackward
           /\ layers' = [layers EXCEPT ![k] = r.layer]
           /\ call' = [op |-> "backward", result |-> Outcome(r.error), arg |-> k]
           /\ acc' = IF r.error = "none" /\ layers[k].kind = "Dense" /\ acc[k].valid
                     THEN [acc EXCEPT
                             ![k].w = MatAdd(@, SampleGrad(acc[k].x, g).w),
                             ![k].b = VecAdd(@, SampleGrad(acc[k].x, g).b),
                             ![k].n = @ + 1]
                     ELSE acc
           /\ made' = IF r.error = "none" THEN [made EXCEPT !.backward = @ + 1] ELSE made
    /\ UNCHANGED <<optimizer, training, is_initialized, sgd, loader, cursor, epoch>>

ClearGradients(k) ==
    /\ Alive
    /\ layers[k].kind = "Dense"
    /\ layers' = [layers EXCEPT ![k] = DenseClearGradients(@)]
    /\ call' = [op |-> "clearGradients", result |-> "ok", arg |-> k]
    /\ acc' = [acc EXCEPT ![k] = FreshAcc(layers'[k], @)]
    /\ UNCHANGED <<optimizer, training, is_initialized, sgd, loader, cursor, epoch, made>>

InitializeWeights(k, drawn) ==
    /\ Alive
    /\ layers[k].kind = "Dense"
    /\ layers' = [layers EXCEPT ![k] = DenseInitializeWeights(@, drawn)]
    /\ call' = [op |-> "initializeWeights", result |-> "ok", arg |-> k]
    /\ UNCHANGED <<optimizer, training, is_initialized, sgd, loader, cursor, epoch, acc, made>>

InitializeBiases(k, drawn) ==
    /\ Alive
    /\ layers[k].kind = "Dense"
    /\ layers' = [layers EXCEPT ![k] = DenseInitializeBiases(@, drawn)]
    /\ call' = [op |-> "initializeBiases", result |-> "ok", arg |-> k]
    /\ UNCHANGED <<optimizer, training, is_initialized, sgd, loader, cursor, epoch, acc, made>>

SetWeights(k, new_weights) ==
    /\ Alive
    /\ layers[k].kind = "Dense"
    /\ LET r == DenseSetWeights(layers[k], new_weights)
       IN  /\ layers' = [layers EXCEPT ![k] = r.layer]
           /\ call' = [op |-> "setWeights", result |-> Outcome(r.error), arg |-> k]
    /\ UNCHANGED <<optimizer, training, is_initialized, sgd, loader, cursor, epoch, acc, made>>

SetBiases(k, new_biases) ==
    /\ Alive
    /\ layers[k].kind = "Dense"
    /\ LET r == DenseSetBiases(layers[k], new_biases)
       IN  /\ layers' = [layers EXCEPT ![k] = r.layer]
           /\ call' = [op |-> "setBiases", result |-> Outcome(r.error), arg |-> k]
    /\ UNCHANGED <<optimizer, training, is_initialized, sgd, loader, cursor, epoch, acc, made>>

Step(batch_size) ==
    /\ Alive
    /\ made.step < MaxStep
    /\ LET r == SGDstep(sgd, layers, batch_size)
       IN  /\ layers' = r.layers
           /\ sgd' = r.opt
           /\ call' = [op |-> "step", result |-> Outcome(r.error), arg |-> batch_size]
           /\ acc' = IF batch_size = 0 THEN acc
                     ELSE [k \in 1..Len(layers) |-> FreshAcc(r.layers[k], acc[k])]
    /\ made' = [made EXCEPT !.step = @ + 1]
    /\ UNCHANGED <<optimizer, training, is_initialized, loader, cursor, epoch>>

SetGradientClip(clip) ==
    /\ Alive
    /\ sgd' = SGDsetGradientClip(sgd, clip)
    /\ call' = [op |-> "setGradientClip", result |-> "ok", arg |-> clip]
    /\ UNCHANGED <<optimizer, training, layers, is_initialized, loader, cursor, epoch, acc, made>>

SetMomentum(m) ==
    /\ Alive
    /\ sgd' = SGDsetMomentum(sgd, m)
    /\ call' = [op |-> "setMomentum", result |-> "ok", arg |-> m]
    /\ UNCHANGED <<optimizer, training, layers, is_initialized, loader, cursor, epoch, acc, made>>

\* activationDerivative called directly, with the kind of layer k
ActivationDerivative(k, x) ==
    /\ Alive
    /\ layers[k].kind = "Activation"
    /\ call' = [op     |-> "activationDerivative",
                result |-> Outcome(activationDerivativeError(x, layers[k].activation_type)),
                arg    |-> Len(x)]
    /\ UNCHANGED <<optimizer, training, layers, is_initialized, sgd, loader, cursor, epoch,
                   acc, made>>

AfterStep ==
    /\ Alive
    /\ sgd.step_count < MaxStepCount
    /\ sgd' = SGDafterStep(sgd)
    /\ call' = [op |-> "afterStep", result |-> "ok", arg |-> 0]
    /\ made' = [made EXCEPT !.afterStep = @ + 1]
    /\ UNCHANGED <<optimizer, training, layers, is_initialized, loader, cursor, epoch, acc>>

ResetStepCount ==
    /\ Alive
    /\ sgd' = SGDresetStepCount(sgd)
    /\ call' = [op |-> "resetStepCount", result |-> "ok", arg |-> 0]
    /\ made' = [made EXCEPT !.afterStep = 0]
    /\ UNCHANGED <<optimizer, training, layers, is_initialized, loader, cursor, epoch, acc>>

SetLRScheduler(scheduler) ==
    /\ Alive
    /\ sgd' = SGDsetLRScheduler(sgd, scheduler)
    /\ call' = [op |-> "setLRScheduler", result |-> "ok", arg |-> scheduler.step_size]
    /\ made' = IF scheduler.kind # "none" THEN [made EXCEPT !.scheduled = 1] ELSE made
    /\ UNCHANGED <<optimizer, training, layers, is_initialized, loader, cursor, epoch, acc>>

SetLearningRate(lr) ==
    /\ Alive
    /\ sgd' = SGDsetLearningRate(sgd, lr)
    /\ call' = [op |-> "setLearningRate", result |-> "ok", arg |-> lr]
    /\ UNCHANGED <<optimizer, training, layers, is_initialized, loader, cursor, epoch, acc, made>>

DecayLearningRate(decay_factor) ==
    /\ Alive
    /\ sgd.learning_rate * decay_factor <= MaxLearningRate
    /\ sgd' = SGDdecayLearningRate(sgd, decay_factor)
    /\ call' = [op |-> "decayLearningRate", result |-> "ok", arg |-> decay_factor]
    /\ UNCHANGED <<optimizer, training, layers, is_initialized, loader, cursor, epoch, acc, made>>

DenseIds == {k \in 1..Len(layers) : layers[k].kind = "Dense"}

NoLoader == [dataset |-> <<>>, batch_size |-> 0, shuffle |-> FALSE, indices |-> <<>>, resets |-> 0]

NoEpoch == [active |-> FALSE, indices |-> <<>>, batches |-> <<>>]

NoOptimizer == [kind |-> "none", learning_rate |-> 0, mini_batch_size |-> 0, sample_count |-> 0]

Idle == [pc |-> "idle", i |-> 0, samples |-> <<>>, total_loss_x2 |-> 0, updates |-> 0,
         entry_count |-> 0]

-----------------------------------------------------------------------------
(* One layer driven by a caller *)

LayerLists ==
    {<<DenseLayer(s[1], s[2], p)>> : s \in Shapes, p \in BOOLEAN}
        \cup {<<ActivationLayer(t)>> : t \in ActivationTypes}

InitLayer ==
    /\ layers \in LayerLists
    /\ is_initialized = FALSE
    /\ sgd = SGD(2, 0)
    /\ loader = NoLoader
    /\ cursor = 0
    /\ epoch = NoEpoch
    /\ optimizer = NoOptimizer
    /\ training = Idle
    /\ call = NoCall
    /\ acc = [k \in 1..Len(layers) |-> FreshAcc(layers[k], NoAcc)]
    /\ made = NoneMade

NextLayer ==
    \/ \E k \in 1..Len(layers), x \in Vectors : Forward(k, x)
    \/ \E k \in 1..Len(layers), g \in Vectors : Backward(k, g)
    \/ \E k \in DenseIds : ClearGradients(k)
    \/ \E k \in DenseIds : \E d \in Drawn(layers[k].output_size, layers[k].input_size) :
           InitializeWeights(k, d)
    \/ \E k \in DenseIds : \E d \in Drawn(1, layers[k].output_size) :
           InitializeBiases(k, d)
    \/ \E k \in DenseIds : \E m \in Matrices(layers[k]) : SetWeights(k, m)
    \/ \E k \in DenseIds : \E v \in Vectors : SetBiases(k, v)
    \/ \E k \in 1..Len(layers), x \in Vectors : ActivationDerivative(k, x)

SpecLayer == InitLayer /\ [][NextLayer]_vars

-----------------------------------------------------------------------------
(* Layers updated by an SGD optimizer *)

SGDLayerLists ==
    {<<DenseLayer(s[1], s[2], TRUE)>> : s \in Shapes}
        \cup {<<DenseLayer(1, 1, FALSE)>>}
        \cup {<<ActivationLayer("RELU"), DenseLayer(1, 1, TRUE)>>,
              <<DenseLayer(1, 1, TRUE), DenseLayer(1, 1, TRUE)>>}

\* the vectors of the right length for layer L
InputsOf(L) == IF L.kind = "Dense" THEN {Ramp(L.input_size)} ELSE {Ramp(1)}

GradientsOf(L) ==
    IF L.kind = "Dense" THEN {Ramp(L.output_size), Mixed(L.output_size)} ELSE {Ramp(1)}

InitSGD ==
    /\ layers \in SGDLayerLists
    /\ is_initialized = FALSE
    /\ sgd \in {SGD(lr, m) : lr \in LearningRates, m \in Momenta}
    /\ loader = NoLoader
    /\ cursor = 0
    /\ epoch = NoEpoch
    /\ optimizer = NoOptimizer
    /\ training = Idle
    /\ call = NoCall
    /\ acc = [k \in 1..Len(layers) |-> FreshAcc(layers[k], NoAcc)]
    /\ made = NoneMade

NextSGD ==
    \/ \E k \in 1..Len(layers) : \E x \in InputsOf(layers[k]) : Forward(k, x)
    \/ \E k \in 1..Len(layers) : \E g \in GradientsOf(layers[k]) : Backward(k, g)
    \/ \E k \in DenseIds : ClearGradients(k)
    \/ \E b \in BatchSizes : Step(b)

SpecSGD == InitSGD /\ [][NextSGD]_vars

(* SGD with momentum, on layers allocated at construction or later *)

MomentumLayerLists ==
    { <<DenseLayer(1, 2, TRUE)>>,
      <<DenseLayer(1, 1, FALSE)>>,
      <<DenseLayer(1, 1, TRUE), DenseLayer(1, 1, TRUE)>> }

InitMomentum ==
    /\ layers \in MomentumLayerLists
    /\ is_initialized = FALSE
    /\ sgd \in {SGD(lr, m) : lr \in LearningRates, m \in Momenta}
    /\ loader = NoLoader
    /\ cursor = 0
    /\ epoch = NoEpoch
    /\ optimizer = NoOptimizer
    /\ training = Idle
    /\ call = NoCall
    /\ acc = [k \in 1..Len(layers) |-> FreshAcc(layers[k], NoAcc)]
    /\ made = NoneMade

NextMomentum ==
    \/ \E k \in 1..Len(layers) : \E x \in InputsOf(layers[k]) : Forward(k, x)
    \/ \E k \in DenseIds : Backward(k, Ramp(layers[k].output_size))
    \/ \E k \in DenseIds :
           InitializeWeights(k, ZeroMatrix(layers[k].output_size, layers[k].input_size))
    \/ \E k \in DenseIds : InitializeBiases(k, ZeroMatrix(1, layers[k].output_size))
    \/ \E b \in BatchSizes : Step(b)

SpecMomentum == InitMomentum /\ [][NextMomentum]_vars

-----------------------------------------------------------------------------
(* One Dense layer with allocated parameters, driven by a caller and updated
   by an SGD optimizer *)

InitShape ==
    /\ layers \in {<<DenseLayer(s[1], s[2], TRUE)>> : s \in Shapes}
    /\ is_initialized = FALSE
    /\ sgd = SGD(2, 0)
    /\ loader = NoLoader
    /\ cursor = 0
    /\ epoch = NoEpoch
    /\ optimizer = NoOptimizer
    /\ training = Idle
    /\ call = NoCall
    /\ acc = [k \in 1..Len(layers) |-> FreshAcc(layers[k], NoAcc)]
    /\ made = NoneMade

\* the vectors of the length n a call expects, and one entry longer
Fitting(n) == {Ramp(n), Ramp(n + 1)}

NextShape ==
    \/ \E k \in DenseIds : \E x \in Fitting(layers[k].input_size) : Forward(k, x)
    \/ \E k \in DenseIds : \E g \in Fitting(layers[k].output_size) : Backward(k, g)
    \/ \E k \in DenseIds : ClearGradients(k)
    \/ \E k \in DenseIds :
           InitializeWeights(k, Skew(layers[k].output_size, layers[k].input_size))
    \/ \E k \in DenseIds : InitializeBiases(k, Ones(1, layers[k].output_size))
    \/ \E k \in DenseIds : \E m \in Matrices(layers[k]) : SetWeights(k, m)
    \/ \E k \in DenseIds : \E v \in Fitting(layers[k].output_size) : SetBiases(k, v)
    \/ \E b \in BatchSizes : Step(b)

SpecShape == InitShape /\ [][NextShape]_vars

-----------------------------------------------------------------------------
(* An SGD optimizer whose clip threshold the caller sets *)

InitClip ==
    /\ layers \in {<<DenseLayer(s[1], s[2], TRUE)>> : s \in Shapes}
    /\ is_initialized = FALSE
    /\ sgd \in {SGD(lr, m) : lr \in LearningRates, m \in Momenta}
    /\ loader = NoLoader
    /\ cursor = 0
    /\ epoch = NoEpoch
    /\ optimizer = NoOptimizer
    /\ training = Idle
    /\ call = NoCall
    /\ acc = [k \in 1..Len(layers) |-> FreshAcc(layers[k], NoAcc)]
    /\ made = NoneMade

NextClip ==
    \/ \E k \in 1..Len(layers) : \E x \in InputsOf(layers[k]) : Forward(k, x)
    \/ \E k \in 1..Len(layers) : \E g \in GradientsOf(layers[k]) : Backward(k, g)
    \/ \E b \in BatchSizes : Step(b)
    \/ \E c \in ClipValues : SetGradientClip(c)
    \/ \E m \in Momenta : SetMomentum(m)

SpecClip == InitClip /\ [][NextClip]_vars

-----------------------------------------------------------------------------
(* An SGD optimizer whose learning rate follows a schedule *)

Schedulers == {StepScheduler(1, 2), StepScheduler(2, 3)}

DecayFactors == {2}

InitSchedule ==
    /\ layers = <<DenseLayer(1, 1, TRUE)>>
    /\ is_initialized = FALSE
    /\ sgd \in {SGDWithScheduler(lr, 0, s) : lr \in LearningRates,
                                             s \in {NoScheduler, StepScheduler(1, 2)}}
    /\ loader = NoLoader
    /\ cursor = 0
    /\ epoch = NoEpoch
    /\ optimizer = NoOptimizer
    /\ training = Idle
    /\ call = NoCall
    /\ acc = [k \in 1..Len(layers) |-> FreshAcc(layers[k], NoAcc)]
    /\ made = [NoneMade EXCEPT
                 !.scheduled = IF sgd.lr_scheduler.kind # "none" THEN 1 ELSE 0]

NextSchedule ==
    \/ \E b \in BatchSizes : Step(b)
    \/ AfterStep
    \/ ResetStepCount
    \/ \E s \in Schedulers \cup {NoScheduler} : SetLRScheduler(s)
    \/ \E lr \in LearningRates : SetLearningRate(lr)
    \/ \E f \in DecayFactors : DecayLearningRate(f)

SpecSchedule == InitSchedule /\ [][NextSchedule]_vars

-----------------------------------------------------------------------------
(* A scheduled SGD optimizer updating a network of an Activation layer and a
   Dense layer *)

InitFrame ==
    /\ layers = <<ActivationLayer("RELU"), DenseLayer(1, 1, TRUE)>>
    /\ is_initialized = FALSE
    /\ sgd \in {SGDWithScheduler(lr, m, s) : lr \in LearningRates, m \in Momenta,
                                             s \in {NoScheduler, StepScheduler(1, 2)}}
    /\ loader = NoLoader
    /\ cursor = 0
    /\ epoch = NoEpoch
    /\ optimizer = NoOptimizer
    /\ training = Idle
    /\ call = NoCall
    /\ acc = [k \in 1..Len(layers) |-> FreshAcc(layers[k], NoAcc)]
    /\ made = [NoneMade EXCEPT
                 !.scheduled = IF sgd.lr_scheduler.kind # "none" THEN 1 ELSE 0]

NextFrame ==
    \/ \E k \in 1..Len(layers) : \E x \in InputsOf(layers[k]) : Forward(k, x)
    \/ \E k \in 1..Len(layers) : Backward(k, Ramp(1))
    \/ \E b \in BatchSizes : Step(b)
    \/ AfterStep
    \/ \E lr \in LearningRates : SetLearningRate(lr)

SpecFrame == InitFrame /\ [][NextFrame]_vars

-----------------------------------------------------------------------------
(* Dataset and DataLoader; row indices count from 0 as in the code *)

Min(a, b) == IF a < b THEN a ELSE b

\* a selection that leaves out the last row of the dataset
selectRowsBelowLast(data, idxs) ==
    LET keep == SelectSeq(idxs, LAMBDA idx : idx + 1 < Len(data))
    IN  [k \in 1..Len(keep) |-> data[keep[k] + 1]]

\* Dataset::selectRows: the rows at the indices that are in range, in order
selectRows(data, idxs) ==
    LET keep == SelectSeq(idxs, LAMBDA idx : idx < Len(data))
    IN  [k \in 1..Len(keep) |-> data[keep[k] + 1]]

Iota(n) == [k \in 1..n |-> k - 1]

IndexOrders(n) ==
    {p \in [1..n -> 0..(n - 1)] : \A a, b \in 1..n : p[a] = p[b] => a = b}

\* the index lists DataLoader::reset may leave: std::shuffle draws any order
ResetIndices(n, shuffle_) == IF shuffle_ THEN IndexOrders(n) ELSE {Iota(n)}

\* the loader after its constructor, which calls reset() once
DataLoader(ds, batch_size_, shuffle_, drawn) ==
    [dataset |-> ds, batch_size |-> batch_size_, shuffle |-> shuffle_,
     indices |-> drawn, resets |-> 1]

\* size_t end = std::min(cursor + batch_size, rows())
BatchEnd(ld, c) == Min(c + ld.batch_size, Len(ld.dataset))

IteratorGetIndices(ld, c) ==
    [k \in 1..(IF BatchEnd(ld, c) > c THEN BatchEnd(ld, c) - c ELSE 0) |-> ld.indices[c + k]]

IteratorDeref(ld, c) == selectRows(ld.dataset, IteratorGetIndices(ld, c))

\* an iterator that steps by one row
IteratorAdvanceOneRow(ld, c) == c + 1

\* operator++: cursor += batch_size
IteratorAdvance(ld, c) == c + ld.batch_size

\* a comparison of the two positions for inequality
IteratorNotEqualExact(c, other) == c # other

\* operator!= : cursor < other.cursor
IteratorNotEqual(c, other) == c < other

LoaderEnd(ld) == Len(ld.dataset)

\* begin(): Iterator(*this, 0); the loader is left as it is
LoaderBegin(ld) == [loader |-> ld, cursor |-> 0]

\* the rows of the datasets: row r holds one value, r * r
Rows(n) == [r \in 1..n |-> <<r * r>>]

Begin ==
    /\ loader' = LoaderBegin(loader).loader
    /\ cursor' = LoaderBegin(loader).cursor
    /\ epoch' = [active |-> TRUE, indices |-> <<>>, batches |-> <<>>]
    /\ call' = [op |-> "begin", result |-> "ok", arg |-> 0]
    /\ UNCHANGED <<optimizer, training, layers, is_initialized, sgd, acc, made>>

\* one turn of  for (it = begin(); it != end(); ++it) { *it; it.getIndices(); }
\* a traversal that does not end (batch_size 0) is followed for MaxRows turns
Visit ==
    /\ epoch.active
    /\ IteratorNotEqual(cursor, LoaderEnd(loader))
    /\ Len(epoch.indices) < MaxRows
    /\ epoch' = [epoch EXCEPT
                    !.indices = Append(@, IteratorGetIndices(loader, cursor)),
                    !.batches = Append(@, IteratorDeref(loader, cursor))]
    /\ cursor' = IteratorAdvance(loader, cursor)
    /\ call' = [op |-> "visit", result |-> "ok", arg |-> cursor]
    /\ UNCHANGED <<optimizer, training, layers, is_initialized, sgd, loader, acc, made>>

\* Iterator(loader, c): the constructor is public
MakeIterator(c) ==
    /\ cursor' = c
    /\ epoch' = NoEpoch
    /\ call' = [op |-> "Iterator", result |-> "ok", arg |-> c]
    /\ UNCHANGED <<optimizer, training, layers, is_initialized, sgd, loader, acc, made>>

InitLoader ==
    /\ layers = <<>>
    /\ is_initialized = FALSE
    /\ sgd = SGD(2, 0)
    /\ \E n \in 0..MaxRows, b \in 0..MaxBatchSize, sh \in BOOLEAN :
           \E drawn \in ResetIndices(n, sh) :
               loader = DataLoader(Rows(n), b, sh, drawn)
    /\ cursor = 0
    /\ epoch = NoEpoch
    /\ optimizer = NoOptimizer
    /\ training = Idle
    /\ call = NoCall
    /\ acc = <<>>
    /\ made = NoneMade

NextLoader ==
    \/ Begin
    \/ Visit
    \/ \E c \in 0..Len(loader.dataset) : MakeIterator(c)

SpecLoader == InitLoader /\ [][NextLoader]_vars

(* One loop  for (it = begin(); it != end(); ++it)  over a loader; the loop
   runs on its own, so each of its turns is eventually taken *)

LoopBegin == ~epoch.active /\ Begin

NextLoop ==
    \/ LoopBegin
    \/ Visit

SpecLoop == InitLoader /\ [][NextLoop]_vars /\ WF_vars(NextLoop)

-----------------------------------------------------------------------------
(* Losses, Optimizer hooks and Sequential *)

mse_error(y_true, y_pred) ==
    IF y_true = <<>> \/ Len(y_true) # Len(y_pred) THEN "invalid_argument" ELSE "none"

\* twice mse_loss on vectors of one entry: sum / (2 * size) with size 1
mse_loss_x2(y_true, y_pred) ==
    SumSeq([i \in 1..Len(y_true) |-> (y_true[i] - y_pred[i]) * (y_true[i] - y_pred[i])])
        \div Len(y_true)

\* a double that is the quotient of two integers: num / den, den > 0
Quotient(num, den) == [num |-> num, den |-> den]

\* the integer a quotient is, when its division leaves no remainder
Whole(q) == q.num \div q.den

\* a loss that is the mean of the squares
mse_loss_mean(y_true, y_pred) ==
    Quotient(SumSeq([i \in 1..Len(y_true) |->
                       (y_true[i] - y_pred[i]) * (y_true[i] - y_pred[i])]),
             Len(y_true))

\* sum / (2 * y_true.size())
mse_loss(y_true, y_pred) ==
    Quotient(SumSeq([i \in 1..Len(y_true) |->
                       (y_true[i] - y_pred[i]) * (y_true[i] - y_pred[i])]),
             2 * Len(y_true))

\* grad[i] = (y_pred[i] - y_true[i]) / y_true.size()
mse_derivative(y_true, y_pred) ==
    [i \in 1..Len(y_true) |-> Quotient(y_pred[i] - y_true[i], Len(y_true))]

\* operator> and operator< of std::vector<double>: lexicographic order
RECURSIVE VectorLess(_, _)
VectorLess(a, b) ==
    IF b = <<>> THEN FALSE
    ELSE IF a = <<>> THEN TRUE
    ELSE IF Head(a) < Head(b) THEN TRUE
    ELSE IF Head(b) < Head(a) THEN FALSE
    ELSE VectorLess(Tail(a), Tail(b))

\* grad[i] = (y_pred[i] > y_true[i]) ? 1.0 : (y_pred[i] < y_true[i]) ? -1.0 : 0.0,
\* then divided by y_true.size()
mae_derivative(y_true, y_pred) ==
    [i \in 1..Len(y_true) |->
        Quotient(IF y_pred[i] > y_true[i] THEN 1
                 ELSE IF y_pred[i] < y_true[i] THEN -1 ELSE 0,
                 Len(y_true))]

\* total_elements is summed over the rows of y_true before any row is tested;
\* the comparisons of the inner loop are between the rows y_pred[i] and
\* y_true[i], not between their components j
mae_derivative_batch(Y_true, Y_pred) ==
    LET total_elements == SumSeq([i \in 1..Len(Y_true) |-> Len(Y_true[i])])
    IN  [i \in 1..Len(Y_true) |->
            [j \in 1..Len(Y_true[i]) |->
                Quotient(IF VectorLess(Y_true[i], Y_pred[i]) THEN 1
                         ELSE IF VectorLess(Y_pred[i], Y_true[i]) THEN -1 ELSE 0,
                         total_elements)]]

BatchGD(lr) ==
    [kind |-> "BatchGD", learning_rate |-> lr, mini_batch_size |-> 0, sample_count |-> 0]

MiniBatchGD(lr, mb_size) ==
    [kind |-> "MiniBatchGD", learning_rate |-> lr, mini_batch_size |-> mb_size,
     sample_count |-> 0]

\* BatchGD::step and MiniBatchGD::step on one layer: rows i < weights.size()
GradientStep(opt, L) ==
    IF L.kind # "Dense" THEN L
    ELSE [L EXCEPT
            !.weights = [i \in 1..Len(L.weights) |-> [j \in 1..Len(L.weights[i]) |->
                            L.weights[i][j] - opt.learning_rate * L.grad_weights[i][j]]],
            !.biases  = [i \in 1..Len(L.biases) |->
                            IF i <= Len(L.weights)
                            THEN L.biases[i] - opt.learning_rate * L.grad_biases[i]
                            ELSE L.biases[i]]]

OptimizerStep(opt, Ls) == [k \in 1..Len(Ls) |-> GradientStep(opt, Ls[k])]

\* a loop over the layers that starts at the second one
clear_gradients_from_second(Ls) ==
    [k \in 1..Len(Ls) |->
        IF Ls[k].kind = "Dense" /\ k > 1 THEN DenseClearGradients(Ls[k]) ELSE Ls[k]]

\* Optimizer::clear_gradients over the Dense layers of the network
clear_gradients(Ls) ==
    [k \in 1..Len(Ls) |-> IF Ls[k].kind = "Dense" THEN DenseClearGradients(Ls[k]) ELSE Ls[k]]

\* a step_per_sample that tests the counter before it counts the sample
step_per_sample_test_first(opt, Ls) ==
    IF opt.kind = "MiniBatchGD"
    THEN IF opt.sample_count % opt.mini_batch_size = 0
         THEN [optimizer |-> [opt EXCEPT !.sample_count = 1],
               layers |-> clear_gradients(OptimizerStep(opt, Ls)), stepped |-> 1]
         ELSE [optimizer |-> [opt EXCEPT !.sample_count = @ + 1], layers |-> Ls,
               stepped |-> 0]
    ELSE [optimizer |-> opt, layers |-> Ls, stepped |-> 0]

\* MiniBatchGD::step_per_sample; BatchGD::step_per_sample does nothing
step_per_sample(opt, Ls) ==
    IF opt.kind = "MiniBatchGD"
    THEN IF (opt.sample_count + 1) % opt.mini_batch_size = 0
         THEN [optimizer |-> [opt EXCEPT !.sample_count = 0],
               layers |-> clear_gradients(OptimizerStep(opt, Ls)), stepped |-> 1]
         ELSE [optimizer |-> [opt EXCEPT !.sample_count = @ + 1], layers |-> Ls,
               stepped |-> 0]
    ELSE [optimizer |-> opt, layers |-> Ls, stepped |-> 0]

step_after_batch(opt, Ls) ==
    IF opt.kind = "MiniBatchGD"
    THEN IF opt.sample_count # 0
         THEN [optimizer |-> [opt EXCEPT !.sample_count = 0],
               layers |-> clear_gradients(OptimizerStep(opt, Ls)), stepped |-> 1]
         ELSE [optimizer |-> opt, layers |-> Ls, stepped |-> 0]
    ELSE [optimizer |-> opt, layers |-> OptimizerStep(opt, Ls), stepped |-> 1]

\* a network that never asks for initializeParameters
RequireInitializedNever(initialized) == "none"

\* if (!is_initialized) throw std::runtime_error(...), in forward and in train
RequireInitialized(initialized) == IF ~initialized THEN "runtime_error" ELSE "none"

RECURSIVE ForwardFrom(_, _, _)
ForwardFrom(Ls, k, x) ==
    IF k > Len(Ls)
    THEN [layers |-> Ls, error |-> "none", ret |-> x, invoked |-> Len(Ls)]
    ELSE LET r == LayerForward(Ls[k], x)
         IN  IF r.error # "none"
             THEN [layers |-> [Ls EXCEPT ![k] = r.layer], error |-> r.error,
                   ret |-> <<>>, invoked |-> k]
             ELSE ForwardFrom([Ls EXCEPT ![k] = r.layer], k + 1, r.ret)

SequentialForward(initialized, Ls, input) ==
    IF RequireInitialized(initialized) # "none"
    THEN [layers |-> Ls, error |-> RequireInitialized(initialized), ret |-> <<>>,
          invoked |-> 0]
    ELSE ForwardFrom(Ls, 1, input)

RECURSIVE BackwardFrom(_, _, _)
BackwardFrom(Ls, k, g) ==
    IF k < 1
    THEN [layers |-> Ls, error |-> "none", ret |-> g, invoked |-> Len(Ls)]
    ELSE LET r == LayerBackward(Ls[k], g)
         IN  IF r.error # "none"
             THEN [layers |-> [Ls EXCEPT ![k] = r.layer], error |-> r.error,
                   ret |-> <<>>, invoked |-> Len(Ls) - k + 1]
             ELSE BackwardFrom([Ls EXCEPT ![k] = r.layer], k - 1, r.ret)

SequentialBackward(Ls, grad_output) == BackwardFrom(Ls, Len(Ls), grad_output)

\* Sequential::initializeParameters on one layer: weights as the method draws
\* them, biases filled with bias_value
\* a choice that sends SELU to the fallback of the switch
InitMethodForSeluDefault(Ls, i) ==
    IF i + 1 <= Len(Ls)
    THEN IF Ls[i + 1].kind = "Activation"
         THEN CASE Ls[i + 1].activation_type \in {"RELU", "LEAKY_RELU"} -> "HE_NORMAL"
                [] Ls[i + 1].activation_type \in {"SIGMOID", "TANH"}    -> "XAVIER_NORMAL"
                [] OTHER -> "XAVIER_NORMAL"
         ELSE "XAVIER_NORMAL"
    ELSE "XAVIER_UNIFORM"

\* the InitMethod initializeParameters passes to initializeWeights of layer i
InitMethodFor(Ls, i) ==
    IF i + 1 <= Len(Ls)
    THEN IF Ls[i + 1].kind = "Activation"
         THEN CASE Ls[i + 1].activation_type \in {"RELU", "LEAKY_RELU"} -> "HE_NORMAL"
                [] Ls[i + 1].activation_type \in {"SIGMOID", "TANH"}    -> "XAVIER_NORMAL"
                [] Ls[i + 1].activation_type = "SELU"                   -> "LECUN_NORMAL"
                [] OTHER -> "XAVIER_NORMAL"
         ELSE "XAVIER_NORMAL"
    ELSE "XAVIER_UNIFORM"

\* the methods one initializeParameters call uses, layer by layer
InitMethods(Ls) ==
    [i \in 1..Len(Ls) |->
        IF Ls[i].kind = "Dense"
        THEN [weights |-> InitMethodFor(Ls, i), biases |-> "BIAS"]
        ELSE [weights |-> "none", biases |-> "none"]]

InitializedLayer(L, drawn, bias_value) ==
    IF L.kind # "Dense" THEN L
    ELSE DenseInitializeBiases(DenseInitializeWeights(L, drawn),
                               <<[j \in 1..L.output_size |-> bias_value]>>)

Refused(error, invoked) ==
    IF error # "none" /\ invoked = 0 THEN [made EXCEPT !.refused = 1] ELSE made

InitializeParameters(skewed, bias_value) ==
    /\ training.pc = "idle"
    /\ layers' = [k \in 1..Len(layers) |->
                    IF layers[k].kind # "Dense" THEN layers[k]
                    ELSE InitializedLayer(layers[k],
                             IF skewed
                             THEN Skew(layers[k].output_size, layers[k].input_size)
                             ELSE Ones(layers[k].output_size, layers[k].input_size),
                             bias_value)]
    /\ is_initialized' = TRUE
    /\ call' = [op |-> "initializeParameters", result |-> "ok", arg |-> InitMethods(layers)]
    /\ UNCHANGED <<sgd, loader, cursor, epoch, optimizer, training, acc, made>>

SeqForward(x) ==
    /\ training.pc = "idle"
    /\ LET r == SequentialForward(is_initialized, layers, x)
       IN  /\ layers' = r.layers
           /\ call' = [op |-> "Sequential::forward", result |-> Outcome(r.error),
                       arg |-> r.invoked]
           /\ made' = Refused(r.error, r.invoked)
    /\ UNCHANGED <<is_initialized, sgd, loader, cursor, epoch, optimizer, training, acc>>

SeqBackward(g) ==
    /\ training.pc = "idle"
    /\ LET r == SequentialBackward(layers, g)
       IN  /\ r.error = "none" => made.backward < MaxBackward
           /\ layers' = r.layers
           /\ call' = [op |-> "Sequential::backward", result |-> Outcome(r.error),
                       arg |-> r.invoked]
           /\ made' = IF r.error = "none" THEN [made EXCEPT !.backward = @ + 1] ELSE made
    /\ UNCHANGED <<is_initialized, sgd, loader, cursor, epoch, optimizer, training, acc>>

\* Sequential::train up to the first sample: the initialized check, the dense
\* layers collected, before_epoch and clear_gradients
TrainBegin(samples) ==
    /\ training.pc = "idle"
    /\ LET error == RequireInitialized(is_initialized)
       IN  IF error # "none"
           THEN /\ call' = [op |-> "Sequential::train", result |-> Outcome(error),
                            arg |-> 0]
                /\ made' = Refused(error, 0)
                /\ UNCHANGED <<layers, training>>
           ELSE /\ made.train < MaxTrain
                /\ layers' = clear_gradients(layers)
                /\ training' = [pc |-> "sample", i |-> 0, samples |-> samples,
                                total_loss_x2 |-> 0, updates |-> 0,
                                entry_count |-> optimizer.sample_count]
                /\ call' = [op |-> "Sequential::train", result |-> "ok",
                            arg |-> Len(samples)]
                /\ made' = [made EXCEPT !.train = @ + 1]
    /\ UNCHANGED <<is_initialized, sgd, loader, cursor, epoch, optimizer, acc>>

\* a failure that is swallowed: the loop goes on with the next sample
SampleFailureSkips(tr) == [tr EXCEPT !.i = @ + 1]

\* an exception thrown inside the sample loop leaves train: nothing catches it
SampleFailure(tr) == Idle

\* one turn of the sample loop up to backward: forward, loss_func,
\* loss_derivative, backward
TrainSample ==
    /\ training.pc = "sample"
    /\ training.i < Len(training.samples)
    /\ LET s     == training.samples[training.i + 1]
           f     == SequentialForward(is_initialized, layers, s.x)
           lerr  == mse_error(s.y, f.ret)
           grad  == mse_derivative(s.y, f.ret)
           b     == SequentialBackward(f.layers, [i \in 1..Len(grad) |-> Whole(grad[i])])
           fail(Ls, error) ==
               /\ layers' = Ls
               /\ training' = SampleFailure(training)
               /\ call' = [op |-> "train:sample", result |-> Outcome(error),
                           arg |-> training.i]
       IN  IF f.error # "none" THEN fail(f.layers, f.error)
           ELSE IF lerr # "none" THEN fail(f.layers, lerr)
           ELSE IF b.error # "none" THEN fail(b.layers, b.error)
           ELSE /\ layers' = b.layers
                /\ training' = [training EXCEPT
                                   !.pc = "hook",
                                   !.total_loss_x2 = @ + mse_loss_x2(s.y, f.ret)]
                /\ call' = [op |-> "train:sample", result |-> "ok", arg |-> training.i]
    /\ UNCHANGED <<is_initialized, sgd, loader, cursor, epoch, optimizer, acc, made>>

\* the end of the turn: optimizer->step_per_sample(dense_layers); ++i
TrainStepPerSample ==
    /\ training.pc = "hook"
    /\ LET after == step_per_sample(optimizer, layers)
       IN  /\ layers' = after.layers
           /\ optimizer' = after.optimizer
           /\ training' = [training EXCEPT !.pc = "sample", !.i = @ + 1,
                                           !.updates = @ + after.stepped]
    /\ call' = [op |-> "train:step_per_sample", result |-> "ok", arg |-> training.i]
    /\ UNCHANGED <<is_initialized, sgd, loader, cursor, epoch, acc, made>>

\* after the loop: step_after_batch, then the return
TrainEnd ==
    /\ training.pc = "sample"
    /\ training.i = Len(training.samples)
    /\ LET after == step_after_batch(optimizer, layers)
       IN  /\ layers' = after.layers
           /\ optimizer' = after.optimizer
           /\ training' = [Idle EXCEPT !.updates = training.updates + after.stepped]
    /\ call' = [op |-> "train:return", result |-> "ok", arg |-> Len(training.samples)]
    /\ UNCHANGED <<is_initialized, sgd, loader, cursor, epoch, acc, made>>

SeqLayerLists ==
    { <<>>,
      <<DenseLayer(1, 1, FALSE)>>,
      <<DenseLayer(1, 1, FALSE), ActivationLayer("RELU")>> }

Optimizers == {BatchGD(1), MiniBatchGD(1, 1), MiniBatchGD(1, 2)}

Sample(x_, y_) == [x |-> x_, y |-> y_]

TrainBatches ==
    { <<>>,
      <<Sample(<<1>>, <<0>>)>>,
      <<Sample(<<1>>, <<0>>), Sample(<<2>>, <<1>>)>>,
      <<Sample(<<2>>, <<1>>), Sample(<<1, 1>>, <<0>>)>>,
      <<Sample(<<2>>, <<1>>), Sample(<<1>>, <<0>>), Sample(<<1>>, <<3>>)>>,
      <<Sample(<<1>>, <<0, 0>>)>> }

InitSeq ==
    /\ layers \in SeqLayerLists
    /\ is_initialized = FALSE
    /\ sgd = SGD(2, 0)
    /\ loader = NoLoader
    /\ cursor = 0
    /\ epoch = NoEpoch
    /\ optimizer \in Optimizers
    /\ training = Idle
    /\ call = NoCall
    /\ acc = <<>>
    /\ made = NoneMade

NextSeq ==
    \/ \E skewed \in BOOLEAN, bias_value \in {1} : InitializeParameters(skewed, bias_value)
    \/ \E x \in {<<1>>, <<1, 1>>} : SeqForward(x)
    \/ \E g \in {<<1>>} : SeqBackward(g)
    \/ \E samples \in TrainBatches : TrainBegin(samples)
    \/ TrainSample
    \/ TrainStepPerSample
    \/ TrainEnd

SpecSeq == InitSeq /\ [][NextSeq]_vars

-----------------------------------------------------------------------------
(* A network whose parameters initializeParameters draws *)

InitLayerLists ==
    {<<DenseLayer(1, 1, FALSE), ActivationLayer(t)>> : t \in AllActivationTypes}
        \cup { <<DenseLayer(1, 1, FALSE)>>,
               <<DenseLayer(1, 1, TRUE), DenseLayer(1, 1, FALSE)>>,
               <<ActivationLayer("RELU"), DenseLayer(1, 1, FALSE)>>,
               <<DenseLayer(1, 1, FALSE), ActivationLayer("LINEAR"),
                 DenseLayer(1, 1, FALSE), ActivationLayer("SELU")>> }

InitInit ==
    /\ layers \in InitLayerLists
    /\ is_initialized = FALSE
    /\ sgd = SGD(2, 0)
    /\ loader = NoLoader
    /\ cursor = 0
    /\ epoch = NoEpoch
    /\ optimizer = NoOptimizer
    /\ training = Idle
    /\ call = NoCall
    /\ acc = <<>>
    /\ made = NoneMade

NextInit ==
    \/ \E skewed \in BOOLEAN, bias_value \in {0, 1} : InitializeParameters(skewed, bias_value)
    \/ \E x \in {<<1>>, <<2>>, <<1, 1>>} : SeqForward(x)

SpecInit == InitInit /\ [][NextInit]_vars

-----------------------------------------------------------------------------
(* The loss family: the checks each function makes on its arguments.  The
   entries of targets and predictions are counted in units of 1e-6. *)

One == 1000000

LossNames == {"mse", "mae", "bce", "cross_entropy", "hinge"}

\* y_true.empty() || y_true.size() != y_pred.size(), the first statement of
\* every single-sample loss and derivative
SizeError(y_true, y_pred) ==
    IF y_true = <<>> \/ Len(y_true) # Len(y_pred) THEN "invalid_argument" ELSE "none"

\* std::abs(sum_true - 1.0) > 1e-6
OneHotError(y_true) ==
    IF Abs(SumSeq(y_true) - One) > 1 THEN "invalid_argument" ELSE "none"

\* mse_loss, mae_loss, bce_loss, cross_entropy_loss, hinge_loss
loss_error(loss, y_true, y_pred) ==
    IF SizeError(y_true, y_pred) # "none" THEN SizeError(y_true, y_pred)
    ELSE IF loss = "cross_entropy" THEN OneHotError(y_true)
    ELSE "none"

\* mse_derivative, mae_derivative, bce_derivative, cross_entropy_derivative,
\* hinge_loss_derivative
derivative_error(loss, y_true, y_pred) == SizeError(y_true, y_pred)

\* the rows of a batch are visited in order; the first refused row ends the call
FirstRowError(errors) ==
    IF \A i \in 1..Len(errors) : errors[i] = "none" THEN "none"
    ELSE errors[CHOOSE i \in 1..Len(errors) :
                    /\ errors[i] # "none"
                    /\ \A j \in 1..(i - 1) : errors[j] = "none"]

\* a batch loss that compares the lengths of a row and never looks for an empty one
loss_batch_error_lengths_only(loss, Y_true, Y_pred) ==
    LET row(y_true, y_pred) ==
            IF Len(y_true) # Len(y_pred) THEN "invalid_argument" ELSE "none"
    IN  IF Y_true = <<>> \/ Len(Y_true) # Len(Y_pred) THEN "invalid_argument"
        ELSE FirstRowError([i \in 1..Len(Y_true) |-> row(Y_true[i], Y_pred[i])])

\* mse_loss_batch, mae_loss_batch and bce_loss_batch test each row themselves;
\* hinge_loss_batch compares the lengths of a row and calls hinge_loss;
\* cross_entropy_loss_batch calls cross_entropy_loss on each row
loss_batch_error(loss, Y_true, Y_pred) ==
    LET row(y_true, y_pred) ==
            IF loss = "hinge" /\ Len(y_true) # Len(y_pred) THEN "invalid_argument"
            ELSE IF loss \in {"hinge", "cross_entropy"} THEN loss_error(loss, y_true, y_pred)
            ELSE SizeError(y_true, y_pred)
    IN  IF Y_true = <<>> \/ Len(Y_true) # Len(Y_pred) THEN "invalid_argument"
        ELSE FirstRowError([i \in 1..Len(Y_true) |-> row(Y_true[i], Y_pred[i])])

\* mse_derivative_batch, mae_derivative_batch and bce_derivative_batch test
\* each row themselves; hinge_loss_derivative_batch compares the lengths and
\* calls hinge_loss_derivative; cross_entropy_derivative_batch calls
\* cross_entropy_derivative on each row
derivative_batch_error(loss, Y_true, Y_pred) ==
    LET row(y_true, y_pred) ==
            IF loss = "hinge" /\ Len(y_true) # Len(y_pred) THEN "invalid_argument"
            ELSE IF loss \in {"hinge", "cross_entropy"}
                 THEN derivative_error(loss, y_true, y_pred)
            ELSE SizeError(y_true, y_pred)
    IN  IF Y_true = <<>> \/ Len(Y_true) # Len(Y_pred) THEN "invalid_argument"
        ELSE FirstRowError([i \in 1..Len(Y_true) |-> row(Y_true[i], Y_pred[i])])

\* one call of a function of the family; from_logits is an argument of the
\* bce and cross_entropy functions only
LossCall(form, loss, y_true, y_pred, from_logits) ==
    /\ from_logits => loss \in {"bce", "cross_entropy"}
    /\ LET error == CASE form = "loss"             -> loss_error(loss, y_true, y_pred)
                      [] form = "derivative"       -> derivative_error(loss, y_true, y_pred)
                      [] form = "loss_batch"       -> loss_batch_error(loss, y_true, y_pred)
                      [] form = "derivative_batch" ->
                             derivative_batch_error(loss, y_true, y_pred)
       IN  call' = [op     |-> form,
                    result |-> Outcome(error),
                    arg    |-> [loss |-> loss, y_true |-> y_true, y_pred |-> y_pred,
                                from_logits |-> from_logits]]
    /\ UNCHANGED <<layers, is_initialized, sgd, loader, cursor, epoch, optimizer, training,
                   acc, made>>

Targets ==
    {<<>>, <<One>>, <<One, 0>>, <<One + 1, 0>>, <<One + 2, 0>>, <<One, One>>, <<0, 0>>}

Predictions == {<<>>, <<One>>, <<0, One>>, <<One, 0, 0>>}

\* the batches of no row, of one row, and of a good row followed by any row
BatchesOf(rows, good) == {<<>>} \cup {<<r>> : r \in rows} \cup {<<good, r>> : r \in rows}

InitLoss ==
    /\ layers = <<>>
    /\ is_initialized = FALSE
    /\ sgd = SGD(2, 0)
    /\ loader = NoLoader
    /\ cursor = 0
    /\ epoch = NoEpoch
    /\ optimizer = NoOptimizer
    /\ training = Idle
    /\ call = NoCall
    /\ acc = <<>>
    /\ made = NoneMade

NextLoss ==
    \/ \E loss \in LossNames, y_true \in Targets, y_pred \in Predictions, b \in BOOLEAN :
           LossCall("loss", loss, y_true, y_pred, b)
    \/ \E loss \in LossNames, y_true \in Targets, y_pred \in Predictions, b \in BOOLEAN :
           LossCall("derivative", loss, y_true, y_pred, b)
    \/ \E loss \in LossNames, b \in BOOLEAN :
       \E Y_true \in BatchesOf(Targets, <<One, 0>>), Y_pred \in BatchesOf(Predictions, <<0, One>>) :
           LossCall("loss_batch", loss, Y_true, Y_pred, b)
    \/ \E loss \in LossNames, b \in BOOLEAN :
       \E Y_true \in BatchesOf(Targets, <<One, 0>>), Y_pred \in BatchesOf(Predictions, <<0, One>>) :
           LossCall("derivative_batch", loss, Y_true, Y_pred, b)

SpecLoss == InitLoss /\ [][NextLoss]_vars

-----------------------------------------------------------------------------
(* The values the MSE and MAE functions return *)

Returned(error, value) ==
    [result |-> Outcome(error), ret |-> IF error = "none" THEN value ELSE <<>>]

\* one call of mse_loss, mse_derivative, mae_derivative or mae_derivative_batch
ValueCall(function, y_true, y_pred) ==
    /\ LET r == CASE function = "mse_loss" ->
                     Returned(SizeError(y_true, y_pred), mse_loss(y_true, y_pred))
                  [] function = "mse_derivative" ->
                     Returned(SizeError(y_true, y_pred), mse_derivative(y_true, y_pred))
                  [] function = "mae_derivative" ->
                     Returned(SizeError(y_true, y_pred), mae_derivative(y_true, y_pred))
                  [] function = "mae_derivative_batch" ->
                     Returned(derivative_batch_error("mae", y_true, y_pred),
                              mae_derivative_batch(y_true, y_pred))
       IN  call' = [op     |-> function,
                    result |-> r.result,
                    arg    |-> [y_true |-> y_true, y_pred |-> y_pred],
                    ret    |-> r.ret]
    /\ UNCHANGED <<layers, is_initialized, sgd, loader, cursor, epoch, optimizer, training,
                   acc, made>>

ValueVectors == {<<>>, <<0>>, <<3>>, <<0, 4>>, <<2, 0>>, <<2, 4>>, <<1, 0, 0>>}

NextValue ==
    \/ \E y_true \in ValueVectors, y_pred \in ValueVectors :
           ValueCall("mse_loss", y_true, y_pred)
    \/ \E y_true \in ValueVectors, y_pred \in ValueVectors :
           ValueCall("mse_derivative", y_true, y_pred)
    \/ \E y_true \in ValueVectors, y_pred \in ValueVectors :
           ValueCall("mae_derivative", y_true, y_pred)
    \/ \E Y_true \in BatchesOf(ValueVectors, <<0, 4>>),
          Y_pred \in BatchesOf(ValueVectors, <<2, 0>>) :
           ValueCall("mae_derivative_batch", Y_true, Y_pred)

SpecValue == InitLoss /\ [][NextValue]_vars

-----------------------------------------------------------------------------
(* Schedulers::cosine_warmup *)

\* if (total_steps <= warmup_steps) throw std::invalid_argument
cosine_warmup_error(min_lr, total_steps, warmup_steps) ==
    IF total_steps <= warmup_steps THEN "invalid_argument" ELSE "none"

\* 0.5 * (1 + cos(M_PI * progress)): 1 at progress 0, 0.5 at 1/2, 0 at 1 (in
\* double arithmetic cos(M_PI) is -1 and 1 + cos(M_PI / 2) is 1); any other
\* value is kept as a term
HalfOnePlusCos(progress) ==
    IF progress.num = 0 THEN Quotient(1, 1)
    ELSE IF progress.num = progress.den THEN Quotient(0, 1)
    ELSE IF 2 * progress.num = progress.den THEN Quotient(1, 2)
    ELSE [half_one_plus_cos_pi_times |-> progress]

\* a warmup that climbs from 0 to init_lr
cosine_warmup_from_zero(min_lr, total_steps, warmup_steps, init_lr, step) ==
    IF step < warmup_steps
    THEN Quotient(init_lr * step, warmup_steps)
    ELSE LET progress == Quotient(Min(step - warmup_steps, total_steps - warmup_steps),
                                  total_steps - warmup_steps)
             cosine   == HalfOnePlusCos(progress)
         IN  IF "num" \in DOMAIN cosine
             THEN Quotient(min_lr * cosine.den + (init_lr - min_lr) * cosine.num, cosine.den)
             ELSE [min_lr |-> min_lr, times |-> init_lr - min_lr, cosine |-> cosine]

\* the function cosine_warmup returns, applied to (init_lr, step)
cosine_warmup_schedule(min_lr, total_steps, warmup_steps, init_lr, step) ==
    IF step < warmup_steps
    THEN Quotient(min_lr * warmup_steps + (init_lr - min_lr) * step, warmup_steps)
    ELSE LET progress == Quotient(Min(step - warmup_steps, total_steps - warmup_steps),
                                  total_steps - warmup_steps)
             cosine   == HalfOnePlusCos(progress)
         IN  IF "num" \in DOMAIN cosine
             THEN Quotient(min_lr * cosine.den + (init_lr - min_lr) * cosine.num, cosine.den)
             ELSE [min_lr |-> min_lr, times |-> init_lr - min_lr, cosine |-> cosine]

\* cosine_warmup(min_lr, total_steps, warmup_steps) built, and the schedule
\* it returned called once
CosineWarmup(min_lr, total_steps, warmup_steps, init_lr, step) ==
    /\ LET r == Returned(cosine_warmup_error(min_lr, total_steps, warmup_steps),
                         cosine_warmup_schedule(min_lr, total_steps, warmup_steps,
                                                init_lr, step))
       IN  call' = [op     |-> "cosine_warmup",
                    result |-> r.result,
                    arg    |-> [min_lr |-> min_lr, total_steps |-> total_steps,
                                warmup_steps |-> warmup_steps, init_lr |-> init_lr,
                                step |-> step],
                    ret    |-> r.ret]
    /\ UNCHANGED <<layers, is_initialized, sgd, loader, cursor, epoch, optimizer, training,
                   acc, made>>

NextWarmup ==
    \E min_lr \in {0, 1}, init_lr \in {1, 5} :
    \E total_steps \in 0..MaxTotalSteps, warmup_steps \in 0..MaxTotalSteps :
    \E step \in 0..(MaxTotalSteps + 2) :
        CosineWarmup(min_lr, total_steps, warmup_steps, init_lr, step)

SpecWarmup == InitLoss /\ [][NextWarmup]_vars

-----------------------------------------------------------------------------
(* The properties *)

GradientsZero(L) == AllZeroMat(L.grad_weights) /\ AllZeroVec(L.grad_biases)

\* C1: from zero accumulators, after k (forward, backward) pairs with no clear
\* and no optimizer step in between, grad_weights[i][j] is the sum over the
\* pairs of g[i]*x[j] and grad_biases[i] the sum of g[i]: backward adds, it
\* never overwrites.
C1_GradientsAccumulate ==
    \A k \in DenseIds :
        acc[k].valid => /\ layers[k].grad_weights = acc[k].w
                        /\ layers[k].grad_biases = acc[k].b

C1_Witness ==
    \E k \in DenseIds :
        /\ acc[k].valid
        /\ acc[k].n >= 2
        /\ call.op = "backward"
        /\ ~AllZeroMat(layers[k].grad_weights)
        /\ layers[k].input_size # layers[k].output_size

\* C2: after clearGradients every entry of grad_weights and grad_biases is
\* zero, whatever calls came before, and clearing what was just cleared
\* changes nothing.
C2_ClearGradientsZeroes ==
    /\ call.op = "clearGradients" => GradientsZero(layers[call.arg])
    /\ \A k \in DenseIds :
           /\ GradientsZero(DenseClearGradients(layers[k]))
           /\ DenseClearGradients(DenseClearGradients(layers[k]))
                  = DenseClearGradients(layers[k])

C2_Witness ==
    /\ call.op = "clearGradients"
    /\ made.backward >= 1
    /\ made.step >= 1
    /\ ~AllZeroMat(layers[call.arg].weights)

\* C3: after SGD::step returns, with batch_size >= 1, every Dense layer of the
\* list has all-zero grad_weights and grad_biases.
C3_StepClearsGradients ==
    (call.op = "step" /\ call.result = "ok") =>
        \A k \in DenseIds : GradientsZero(layers[k])

C3_Witness ==
    /\ call.op = "step"
    /\ call.result = "ok"
    /\ call.arg >= 1
    /\ Cardinality(DenseIds) = 2
    /\ \A k \in DenseIds : ~AllZeroMat(layers[k].weights)

OldVelocityWeight(k, i, j) ==
    IF k \in DOMAIN sgd.velocity_weights THEN sgd.velocity_weights[k][i][j] ELSE 0

OldVelocityBias(k, i) ==
    IF k \in DOMAIN sgd.velocity_biases THEN sgd.velocity_biases[k][i] ELSE 0

\* the update of one parameter p with accumulated gradient G under a step with
\* batch size b: with g = G / b, written without the division
ParameterUpdated(p, p1, G, v0, v1, b) ==
    IF sgd.momentum > 0
    THEN /\ b * (v1 - sgd.momentum * v0) = sgd.learning_rate * G
         /\ p1 = p - v1
    ELSE b * (p - p1) = sgd.learning_rate * G

StepUpdatesDense(k) ==
    /\ \A i \in 1..layers[k].output_size : \A j \in 1..layers[k].input_size :
           ParameterUpdated(layers[k].weights[i][j], layers'[k].weights[i][j],
                            layers[k].grad_weights[i][j],
                            OldVelocityWeight(k, i, j),
                            IF sgd.momentum > 0 THEN sgd'.velocity_weights[k][i][j] ELSE 0,
                            call'.arg)
    /\ \A i \in 1..layers[k].output_size :
           ParameterUpdated(layers[k].biases[i], layers'[k].biases[i],
                            layers[k].grad_biases[i],
                            OldVelocityBias(k, i),
                            IF sgd.momentum > 0 THEN sgd'.velocity_biases[k][i] ELSE 0,
                            call'.arg)

\* C4: a step that returns updates every weight and bias p of every Dense
\* layer, with g = G / batch_size: with momentum > 0, v becomes
\* momentum*v + learning_rate*g and p becomes p - v, v being the layer's own
\* velocity entry, zero before its first update and kept from step to step;
\* with momentum 0, p becomes p - learning_rate*g and no velocity is created.
C4_StepUpdate ==
    [][ /\ (call'.op = "step" /\ call'.result = "ok") =>
               /\ \A k \in DenseIds : StepUpdatesDense(k)
               /\ sgd.momentum = 0 =>
                      /\ sgd'.velocity_weights = sgd.velocity_weights
                      /\ sgd'.velocity_biases = sgd.velocity_biases
        /\ call'.op # "step" =>
               /\ sgd'.velocity_weights = sgd.velocity_weights
               /\ sgd'.velocity_biases = sgd.velocity_biases ]_vars

\* a step on a layer allocated after its velocity entry was created indexes
\* the empty entry and does not return
C4_LateAllocationReached == call.op = "step" /\ call.result = "crash"

C4_Witness ==
    /\ call.op = "step"
    /\ call.result = "ok"
    /\ call.arg = 2
    /\ made.step = 2
    /\ made.backward = 2
    /\ sgd.momentum > 0
    /\ DOMAIN sgd.velocity_weights = {1, 2}
    /\ \A k \in DenseIds : ~AllZeroVec(sgd.velocity_biases[k])

\* C5: with a clip threshold c > 0 set, a step bounds every normalized
\* gradient component to [-c, c], so with momentum 0 no weight or bias moves
\* by more than learning_rate*c in one step.
C5_ClipBoundsTheUpdate ==
    [][ (/\ call'.op = "step"
         /\ call'.result = "ok"
         /\ sgd.clip_value_ > 0
         /\ sgd.momentum = 0) =>
            \A k \in DenseIds :
                /\ \A i \in 1..layers[k].output_size : \A j \in 1..layers[k].input_size :
                       Abs(layers'[k].weights[i][j] - layers[k].weights[i][j])
                           <= sgd.learning_rate * sgd.clip_value_
                /\ \A i \in 1..layers[k].output_size :
                       Abs(layers'[k].biases[i] - layers[k].biases[i])
                           <= sgd.learning_rate * sgd.clip_value_ ]_vars

\* C9: backward on a layer on which forward never succeeded fails, and leaves
\* the layer as it was.
C9_BackwardNeedsForward ==
    [][ (call'.op = "backward" /\ ~acc[call'.arg].forwarded) =>
            /\ call'.result # "ok"
            /\ layers' = layers ]_vars

C9_Witness ==
    /\ call.op = "backward"
    /\ call.result = "runtime_error"
    /\ ~acc[call.arg].forwarded
    /\ layers[call.arg].kind = "Dense"
    /\ layers[call.arg].weights # <<>>

RECURSIVE Flatten(_)
Flatten(ss) == IF ss = <<>> THEN <<>> ELSE ss[1] \o Flatten(Tail(ss))

EpochDone == epoch.active /\ ~IteratorNotEqual(cursor, LoaderEnd(loader))

\* C6: with batch_size >= 1, shuffled or not, the index lists of one traversal
\* from begin() to end() are pairwise disjoint and their union is {0..n-1}.
C6_EpochCoversEveryRowOnce ==
    (EpochDone /\ loader.batch_size >= 1) =>
        /\ Len(Flatten(epoch.indices)) = Len(loader.dataset)
        /\ {Flatten(epoch.indices)[k] : k \in 1..Len(Flatten(epoch.indices))}
               = 0..(Len(loader.dataset) - 1)

C6_Witness ==
    /\ EpochDone
    /\ Len(loader.dataset) = MaxRows
    /\ loader.batch_size = MaxBatchSize
    /\ loader.shuffle
    /\ loader.indices # Iota(MaxRows)
    /\ Len(epoch.indices) = 2
    /\ cursor > Len(loader.dataset)

\* C7: every begin() resets the loader before it returns the iterator at
\* cursor 0.
C7_BeginResets ==
    [][call'.op = "begin" => loader'.resets = loader.resets + 1]_vars

\* C8: at a position cursor < n the batch has min(batch_size, n - cursor)
\* rows, getIndices() has that length too, its entries are the permutation's
\* entries from cursor on, and row k of the batch is row getIndices()[k] of
\* the dataset.
C8_BatchMatchesIndices ==
    cursor < Len(loader.dataset) =>
        LET idx   == IteratorGetIndices(loader, cursor)
            batch == IteratorDeref(loader, cursor)
            size  == Min(loader.batch_size, Len(loader.dataset) - cursor)
        IN  /\ Len(batch) = size
            /\ Len(idx) = size
            /\ \A k \in 1..size :
                   /\ idx[k] = loader.indices[cursor + k]
                   /\ batch[k] = loader.dataset[idx[k] + 1]

C8_Witness ==
    /\ call.op = "visit"
    /\ 0 < cursor
    /\ cursor < Len(loader.dataset)
    /\ Len(loader.dataset) - cursor < loader.batch_size
    /\ loader.shuffle
    /\ loader.indices # Iota(Len(loader.dataset))
    /\ loader.indices[Len(loader.dataset)] = Len(loader.dataset) - 1

\* C10: while initializeParameters has not been called, Sequential::forward
\* and Sequential::train fail before any layer or the optimizer is invoked;
\* no operation resets the flag, and once it is set neither call fails for
\* that reason.
C10_InitializedGate ==
    [][/\ is_initialized => is_initialized'
       /\ call'.op \in {"Sequential::forward", "Sequential::train"} =>
              IF ~is_initialized
              THEN /\ call'.result = "runtime_error"
                   /\ call'.arg = 0
                   /\ layers' = layers
                   /\ optimizer' = optimizer
                   /\ training' = training
              ELSE ~(call'.result = "runtime_error" /\ call'.arg = 0)]_vars

C10_Witness ==
    /\ made.refused = 1
    /\ is_initialized
    /\ made.train = MaxTrain
    /\ call.op = "train:return"
    /\ optimizer.kind = "MiniBatchGD"
    /\ Len(layers) = 2
    /\ layers[1].weights # Ones(1, 1)
    /\ layers[1].weights # Skew(1, 1)

\* the weights and biases of the Dense layers of a network
Parameters(Ls) ==
    [k \in 1..Len(Ls) |->
        IF Ls[k].kind = "Dense" THEN <<Ls[k].weights, Ls[k].biases>> ELSE <<>>]

\* inside one train call: no parameter changes from the first sample's
\* forward to the last sample's backward, and a call on N >= 1 samples that
\* returns has made exactly one update
OneUpdateAfterAllSamples ==
    /\ call'.op = "train:sample" => Parameters(layers') = Parameters(layers)
    /\ (call'.op = "train:step_per_sample"
            /\ training.i + 1 < Len(training.samples)) =>
           Parameters(layers') = Parameters(layers)
    /\ (call'.op = "train:return" /\ Len(training.samples) >= 1) =>
           training'.updates = 1

\* C11 as stated: in one train call on N >= 1 samples the optimizer changes
\* the parameters exactly once, and only after forward and backward have run
\* for all N samples, whatever the optimizer.
C11_OneUpdatePerTrain == [][OneUpdateAfterAllSamples]_vars

\* the optimizer treats the whole batch as one group: BatchGD, or a
\* MiniBatchGD entered with its sample counter at 0 and a mini-batch size of
\* at least N
WholeBatchOptimizer ==
    \/ optimizer.kind = "BatchGD"
    \/ /\ optimizer.kind = "MiniBatchGD"
       /\ training.entry_count = 0
       /\ optimizer.mini_batch_size >= Len(training.samples)

\* C11 amended: with BatchGD, or with a MiniBatchGD whose sample counter is 0
\* on entry and whose mini-batch size is at least N, one train call on N >= 1
\* samples updates the parameters exactly once, after forward and backward
\* have run for all N samples.
C11_OneUpdateWhenBatchIsOneGroup ==
    [][WholeBatchOptimizer => OneUpdateAfterAllSamples]_vars

C11_Witness ==
    /\ call.op = "train:return"
    /\ call.arg = 2
    /\ optimizer.kind = "MiniBatchGD"
    /\ optimizer.mini_batch_size = 2
    /\ training.updates = 1
    /\ Len(layers) = 1
    /\ layers[1].weights # Ones(1, 1)
    /\ layers[1].weights # Skew(1, 1)

\* C12: when train returns normally every Dense layer has all-zero
\* grad_weights and grad_biases, for every optimizer.
C12_TrainReturnsWithZeroGradients ==
    call.op = "train:return" => \A k \in DenseIds : GradientsZero(layers[k])

\* C13: when forward, the loss, its gradient or backward fails on sample i,
\* train ends with that failure: no later sample is processed, the
\* end-of-batch update does not run, the optimizer and the parameters stay as
\* they were; train returns only after every sample went through the loop.
C13_FailureAbortsTrain ==
    [][/\ (call'.op = "train:sample" /\ call'.result # "ok") =>
              /\ training'.pc = "idle"
              /\ call'.arg = training.i
              /\ optimizer' = optimizer
              /\ Parameters(layers') = Parameters(layers)
       /\ call'.op = "train:return" =>
              /\ training.pc = "sample"
              /\ training.i = Len(training.samples)
       /\ (call'.op = "train:sample" /\ call'.result = "ok") =>
              training'.i = training.i
       /\ call'.op = "train:step_per_sample" =>
              /\ call.op = "train:sample"
              /\ call.result = "ok"
              /\ training'.i = training.i + 1 ]_vars

C13_Witness ==
    /\ call.op = "train:sample"
    /\ call.result = "invalid_argument"
    /\ call.arg = 1
    /\ training.pc = "idle"
    /\ optimizer.kind = "MiniBatchGD"
    /\ optimizer.sample_count = 1
    /\ \E k \in DenseIds : ~GradientsZero(layers[k])

\* C14: after k calls of afterStep since construction or the last
\* resetStepCount, step_count is k; with a schedule installed the k-th call
\* sets learning_rate to schedule(initial_lr, k), whatever learning_rate was;
\* with no schedule installed afterStep leaves learning_rate unchanged.
C14_AfterStepFollowsSchedule ==
    /\ [](sgd.step_count = made.afterStep)
    /\ [][call'.op = "afterStep" =>
              /\ sgd'.initial_lr = sgd.initial_lr
              /\ IF sgd.lr_scheduler.kind # "none"
                 THEN sgd'.learning_rate =
                          Schedule(sgd.lr_scheduler, sgd.initial_lr, made'.afterStep)
                 ELSE sgd'.learning_rate = sgd.learning_rate]_vars

\* the second afterStep since a reset, on a learning rate that the first one
\* had already moved away from initial_lr
C14_Witness ==
    /\ call.op = "afterStep"
    /\ made.afterStep = 2
    /\ sgd.lr_scheduler = StepScheduler(1, 2)
    /\ sgd.initial_lr = 2
    /\ sgd.learning_rate = 8
    /\ made.step >= 1

\* C15: while no schedule has ever been installed initial_lr equals
\* learning_rate; while a schedule is installed setLearningRate and
\* decayLearningRate change learning_rate and leave initial_lr unchanged.
C15_InitialLrTracksUnscheduledRate ==
    /\ [](made.scheduled = 0 => sgd.initial_lr = sgd.learning_rate)
    /\ [][(sgd.lr_scheduler.kind # "none" /\
               call'.op \in {"setLearningRate", "decayLearningRate"}) =>
              /\ sgd'.initial_lr = sgd.initial_lr
              /\ sgd'.learning_rate =
                     IF call'.op = "setLearningRate" THEN call'.arg
                     ELSE sgd.learning_rate * call'.arg
              /\ [sgd' EXCEPT !.learning_rate = 0] = [sgd EXCEPT !.learning_rate = 0]]_vars

\* a schedule is installed, the rate was decayed away from initial_lr
C15_Witness ==
    /\ call.op = "decayLearningRate"
    /\ sgd.lr_scheduler.kind = "step"
    /\ sgd.initial_lr = 2
    /\ sgd.learning_rate = 8
    /\ made.afterStep >= 1

\* no schedule was ever installed, and the rate was set and decayed
C15_UnscheduledReached ==
    /\ call.op = "decayLearningRate"
    /\ made.scheduled = 0
    /\ sgd.learning_rate = 8
    /\ made.afterStep >= 1
    /\ made.step >= 1

\* C16: on a DenseLayer(in, out) whose weights and biases are allocated,
\* forward on an input of length in returns a vector of length out and backward
\* after a forward on a gradient of length out returns a vector of length in;
\* an input or a gradient of another length is refused with invalid_argument
\* and the layer is left as it was.
C16_DenseShapes ==
    [][\A k \in DenseIds :
           (layers[k].weights # <<>> /\ layers[k].biases # <<>>) =>
               /\ \A x \in Vectors : Forward(k, x) =>
                      IF Len(x) = layers[k].input_size
                      THEN /\ call'.result = "ok"
                           /\ Len(LayerForward(layers[k], x).ret) = layers[k].output_size
                      ELSE /\ call'.result = "invalid_argument"
                           /\ layers' = layers
               /\ \A g \in Vectors : Backward(k, g) =>
                      IF Len(g) # layers[k].output_size
                      THEN /\ call'.result = "invalid_argument"
                           /\ layers' = layers
                      ELSE acc[k].forwarded =>
                               /\ call'.result = "ok"
                               /\ Len(LayerBackward(layers[k], g).ret) =
                                      layers[k].input_size]_vars

\* a backward that returned on a layer with more outputs than inputs
C16_Witness ==
    /\ call.op = "backward"
    /\ call.result = "ok"
    /\ layers[1].kind = "Dense"
    /\ layers[1].input_size = 1
    /\ layers[1].output_size = 2
    /\ layers[1].weights = Skew(2, 1)

SoftmaxIds ==
    {k \in 1..Len(layers) : layers[k].kind = "Activation" /\ layers[k].activation_type = "SOFTMAX"}

\* backward on a softmax layer hands the incoming gradient back and does not
\* fail on the derivative softmax does not have
SoftmaxBackwardPassesGradient ==
    \A k \in SoftmaxIds : \A g \in Vectors : Backward(k, g) =>
        /\ call'.result = "ok" => LayerBackward(layers[k], g).ret = g
        /\ (g # <<>> /\ Len(layers[k].input_cache) = Len(g)) => call'.result = "ok"

\* C17 as claimed: backward on a softmax layer returns the incoming gradient
\* unchanged without requesting the derivative, and activationDerivative with
\* kind SOFTMAX fails with a logic error for every input.
C17_SoftmaxDerivativeAlwaysFails ==
    [][/\ SoftmaxBackwardPassesGradient
       /\ (SoftmaxIds # {} /\ call'.op = "activationDerivative") =>
              call'.result = "logic_error"]_vars

\* C17, amended: backward on a softmax layer returns the incoming gradient
\* unchanged without requesting the derivative, and activationDerivative with
\* kind SOFTMAX fails with a logic error for every non-empty input; for the
\* empty input it returns (the empty vector).
C17_SoftmaxDerivativeFailsOnValues ==
    [][/\ SoftmaxBackwardPassesGradient
       /\ (SoftmaxIds # {} /\ call'.op = "activationDerivative") =>
              call'.result = IF call'.arg > 0 THEN "logic_error" ELSE "ok"]_vars

\* the derivative was requested for a forwarded softmax layer and refused
C17_Witness ==
    /\ SoftmaxIds # {}
    /\ call.op = "activationDerivative"
    /\ call.result = "logic_error"
    /\ call.arg = 2
    /\ layers[1].input_cache = Ramp(2)

\* the family of an InitMethod: its name without the distribution
InitFamily(method) ==
    CASE method \in {"HE_NORMAL", "HE_UNIFORM"}         -> "He"
      [] method \in {"LECUN_NORMAL", "LECUN_UNIFORM"}   -> "LeCun"
      [] method \in {"XAVIER_NORMAL", "XAVIER_UNIFORM"} -> "Xavier"
      [] OTHER -> method

\* the family the claim gives a Dense layer, from the layer that follows it
ClaimedFamily(Ls, k) ==
    IF k < Len(Ls) /\ Ls[k + 1].kind = "Activation"
    THEN IF Ls[k + 1].activation_type \in {"RELU", "LEAKY_RELU"} THEN "He"
         ELSE IF Ls[k + 1].activation_type = "SELU" THEN "LeCun"
         ELSE "Xavier"
    ELSE "Xavier"

\* C18: initializeParameters initializes the weights of each Dense layer
\* with He when a ReLU or Leaky-ReLU activation follows it, LeCun when SELU
\* follows, Xavier otherwise (another activation, a layer that is no
\* activation, or no layer); its biases with the constant method; it leaves
\* the other layers as they were and sets the initialized flag.
C18_InitMethodFollowsNextLayer ==
    [][call'.op = "initializeParameters" =>
           /\ is_initialized'
           /\ Len(layers') = Len(layers)
           /\ \A k \in 1..Len(layers) :
                  IF layers[k].kind = "Dense"
                  THEN /\ InitFamily(call'.arg[k].weights) = ClaimedFamily(layers, k)
                       /\ call'.arg[k].biases = "BIAS"
                       /\ layers'[k].weights # <<>>
                       /\ \E v \in {0, 1} : layers'[k].biases = [j \in 1..layers[k].output_size |-> v]
                  ELSE layers'[k] = layers[k]]_vars

\* a network Dense, Linear, Dense, SELU initialized again after a forward
\* that filled the caches of its activation layers
C18_Witness ==
    /\ call.op = "initializeParameters"
    /\ Len(layers) = 4
    /\ call.arg[1].weights = "XAVIER_NORMAL"
    /\ call.arg[3].weights = "LECUN_NORMAL"
    /\ layers[2].input_cache # <<>>
    /\ layers[4].input_cache # <<>>
    /\ is_initialized

\* the last layer of a network is a Dense layer: nothing follows it
C18_LastLayerReached ==
    /\ call.op = "initializeParameters"
    /\ Len(layers) = 2
    /\ layers[1].kind = "Activation"
    /\ call.arg[2].weights = "XAVIER_UNIFORM"

BatchForms == {"loss_batch", "derivative_batch"}

LossForms == {"loss", "derivative"} \cup BatchForms

\* y_true is empty or its length is not that of y_pred
BadLengths(y_true, y_pred) == y_true = <<>> \/ Len(y_true) # Len(y_pred)

\* C19: every loss and every loss gradient, of each of the five losses, fails
\* with invalid_argument when y_true is empty or y_true and y_pred differ in
\* length; the batch forms also when a row of the batch is empty or differs in
\* length from its prediction.
C19_LossesRejectBadLengths ==
    call.op \in LossForms =>
        LET bad == \/ BadLengths(call.arg.y_true, call.arg.y_pred)
                   \/ /\ call.op \in BatchForms
                      /\ \E i \in 1..Len(call.arg.y_true) :
                             BadLengths(call.arg.y_true[i], call.arg.y_pred[i])
        IN  bad => call.result = "invalid_argument"

\* hinge_loss_batch refused a batch whose second row is empty on both sides
C19_Witness ==
    /\ call.op = "loss_batch"
    /\ call.arg.loss = "hinge"
    /\ call.arg.y_true = <<<<One, 0>>, <<>>>>
    /\ call.arg.y_pred = <<<<0, One>>, <<>>>>
    /\ call.result = "invalid_argument"

\* the targets of a call, one per row
TargetsOf(c) == IF c.op \in BatchForms THEN c.arg.y_true ELSE <<c.arg.y_true>>

\* C20: every categorical cross-entropy function, loss and gradient, single
\* and batch, fails with invalid_argument when the entries of a target do not
\* sum to 1 within 1e-6.
C20_CrossEntropyRequiresOneHot ==
    (call.op \in LossForms /\ call.arg.loss = "cross_entropy") =>
        ((\E i \in 1..Len(TargetsOf(call)) : Abs(SumSeq(TargetsOf(call)[i]) - One) > 1)
             => call.result = "invalid_argument")

\* two quotients are the same number
SameNumber(p, q) == p.num * q.den = q.num * p.den

SumOfSquares(y_true, y_pred) ==
    SumSeq([i \in 1..Len(y_true) |-> (y_pred[i] - y_true[i]) * (y_pred[i] - y_true[i])])

Sign(v) == IF v > 0 THEN 1 ELSE IF v < 0 THEN -1 ELSE 0

\* C22: component j of row i of mae_derivative_batch is the sign of
\* y_pred[i][j] - y_true[i][j] divided by the number of elements of the
\* batch, whatever the other components of the row are.
C22_MaeBatchSignPerComponent ==
    (call.op = "mae_derivative_batch" /\ call.result = "ok") =>
        LET total == SumSeq([i \in 1..Len(call.arg.y_true) |-> Len(call.arg.y_true[i])])
        IN  \A i \in 1..Len(call.arg.y_true) : \A j \in 1..Len(call.arg.y_true[i]) :
                SameNumber(call.ret[i][j],
                           Quotient(Sign(call.arg.y_pred[i][j] - call.arg.y_true[i][j]),
                                    total))

\* a quotient that is the integer v
IsNumber(q, v) == SameNumber(q, Quotient(v, 1))

\* C23 as claimed: for every accepted configuration (total_steps >
\* warmup_steps, warmup_steps = 0 included) and every initial rate the schedule
\* of cosine_warmup returns min_lr at step 0, and min_lr at step = total_steps
\* and at every later step.
C23_WarmupStartsAndEndsAtMinLr ==
    (call.op = "cosine_warmup" /\ call.result = "ok") =>
        /\ call.arg.step = 0 => IsNumber(call.ret, call.arg.min_lr)
        /\ call.arg.step >= call.arg.total_steps => IsNumber(call.ret, call.arg.min_lr)

\* C23, amended: a configuration is accepted exactly when total_steps >
\* warmup_steps; the schedule returns min_lr at step 0 when warmup_steps >= 1
\* and init_lr at step 0 when warmup_steps = 0, and returns min_lr at step =
\* total_steps and at every later step.
C23_WarmupEndsAtMinLr ==
    call.op = "cosine_warmup" =>
        /\ call.result = "ok" <=> call.arg.total_steps > call.arg.warmup_steps
        /\ call.result = "ok" =>
               /\ call.arg.step = 0 =>
                      IsNumber(call.ret, IF call.arg.warmup_steps >= 1
                                         THEN call.arg.min_lr ELSE call.arg.init_lr)
               /\ call.arg.step >= call.arg.total_steps =>
                      IsNumber(call.ret, call.arg.min_lr)

\* a schedule with a warmup of two steps, called past its last step
C23_Witness ==
    /\ call.op = "cosine_warmup"
    /\ call.result = "ok"
    /\ call.arg = [min_lr |-> 1, total_steps |-> 3, warmup_steps |-> 2, init_lr |-> 5,
                   step |-> 4]
    /\ IsNumber(call.ret, 1)

\* a schedule without warmup, at step 0
C23_NoWarmupReached ==
    /\ call.op = "cosine_warmup"
    /\ call.result = "ok"
    /\ call.arg.warmup_steps = 0
    /\ call.arg.step = 0
    /\ call.arg.min_lr = 1
    /\ IsNumber(call.ret, 5)

\* M is a matrix of r rows of c entries each
HasShape(M, r, c) == Len(M) = r /\ \A i \in 1..Len(M) : Len(M[i]) = c

ParametersKeepShape ==
    \A k \in DenseIds :
        /\ HasShape(layers[k].weights, layers[k].output_size, layers[k].input_size)
        /\ HasShape(layers[k].grad_weights, layers[k].output_size, layers[k].input_size)
        /\ Len(layers[k].biases) = layers[k].output_size
        /\ Len(layers[k].grad_biases) = layers[k].output_size

SettersRejectOtherShapes ==
    /\ \A k \in DenseIds : \A m \in Matrices(layers[k]) :
           (SetWeights(k, m)
               /\ ~HasShape(m, layers[k].output_size, layers[k].input_size))
           => call'.result = "invalid_argument" /\ layers' = layers
    /\ \A k \in DenseIds : \A v \in Fitting(layers[k].output_size) :
           (SetBiases(k, v) /\ Len(v) # layers[k].output_size)
           => call'.result = "invalid_argument" /\ layers' = layers

NoGradients(Ls) == \A k \in 1..Len(Ls) : Ls[k].kind = "Dense" => GradientsZero(Ls[k])

\* C25: gradients never leak from one train call into the next, aborted calls
\* and optimizers that do not clear after their update included: every train
\* call that passes the initialized check zeroes the gradients of every Dense
\* layer before its first sample, whatever they were, and the first sample's
\* backward therefore adds to zero.
C25_TrainStartsFromZeroGradients ==
    /\ [][(call'.op = "Sequential::train" /\ call'.result = "ok") =>
              /\ NoGradients(layers')
              /\ Parameters(layers') = Parameters(layers)
              /\ training'.i = 0 ]_vars
    /\ []((training.pc = "sample" /\ training.i = 0) => NoGradients(layers))
    /\ [][(call'.op = "train:sample" /\ training.i = 0) => NoGradients(layers)]_vars

\* a second train call has begun after the first was aborted with gradients
\* accumulated, and it starts from zero
C25_Witness ==
    /\ call.op = "Sequential::train"
    /\ call.result = "ok"
    /\ made.train = 2
    /\ optimizer.kind = "MiniBatchGD"
    /\ optimizer.sample_count = 1
    /\ training.pc = "sample"
    /\ DenseIds # {}
    /\ NoGradients(layers)

\* what forward and backward may change of Dense layer k in one step
ForwardBackwardFrame ==
    \A k \in DenseIds :
        /\ (call'.op = "forward" /\ call'.arg = k) =>
               /\ layers'[k] = [layers[k] EXCEPT !.input_cache = layers'[k].input_cache]
               /\ call'.result # "ok" => layers' = layers
        /\ (call'.op = "backward" /\ call'.arg = k) =>
               /\ layers'[k] = [layers[k] EXCEPT
                                   !.grad_weights = layers'[k].grad_weights,
                                   !.grad_biases  = layers'[k].grad_biases]
               /\ call'.result # "ok" => layers' = layers
        /\ (layers'[k].weights # layers[k].weights
                \/ layers'[k].biases # layers[k].biases) =>
               call'.op \in {"initializeWeights", "initializeBiases", "setWeights",
                             "setBiases", "step"}

C26_RejectedForwardReached ==
    /\ call.op = "forward"
    /\ call.result = "invalid_argument"
    /\ \E k \in DenseIds : call.arg = k /\ layers[k].input_cache # <<>>

\* the optimizer without its velocity buffers
Settings(opt) == [opt EXCEPT !.velocity_weights = <<>>, !.velocity_biases = <<>>]

StepFrame ==
    /\ call'.op = "step" =>
           /\ Settings(sgd') = Settings(sgd)
           /\ \A k \in 1..Len(layers) : layers[k].kind # "Dense" => layers'[k] = layers[k]
           /\ call'.result = "ok" => \A k \in DenseIds : StepUpdatesDense(k)
    /\ sgd'.learning_rate # sgd.learning_rate =>
           call'.op \in {"afterStep", "setLearningRate"}
    /\ (call'.op = "afterStep" /\ sgd.lr_scheduler.kind # "none") =>
           sgd'.learning_rate = Schedule(sgd.lr_scheduler, sgd.initial_lr, sgd'.step_count)

\* C27: SGD::step leaves learning_rate, initial_lr, step_count and the
\* installed schedule unchanged and changes no layer that is not a Dense
\* layer; every step updates with the learning rate the optimizer holds, which
\* follows the schedule only in afterStep, so steps without an afterStep in
\* between all use the same learning rate.
C27_StepLeavesSchedule == [][StepFrame]_vars

\* a second step after a first one, with a schedule installed whose next
\* afterStep would change the rate; the Activation layer holds a cached input
C27_Witness ==
    /\ call.op = "step"
    /\ call.result = "ok"
    /\ made.step = 2
    /\ made.afterStep = 1
    /\ sgd.lr_scheduler.kind = "step"
    /\ sgd.step_count = 1
    /\ sgd.learning_rate # sgd.initial_lr
    /\ layers[1].input_cache # <<>>
    /\ ~AllZeroMat(layers[2].weights)

\* C28: SGD::step called with batch_size = 0 fails with invalid_argument
\* before it touches anything: no layer's weights, biases or gradient
\* accumulators change and no velocity buffer is changed or created.
C28_ZeroBatchSizeRejected ==
    [][(call'.op = "step" /\ call'.arg = 0) =>
           /\ call'.result = "invalid_argument"
           /\ layers' = layers
           /\ sgd' = sgd ]_vars

\* a step with batch_size 0 was refused by an optimizer with momentum that has
\* created no velocity buffer yet, on a layer with accumulated gradients
C28_Witness ==
    /\ call.op = "step"
    /\ call.arg = 0
    /\ call.result = "invalid_argument"
    /\ sgd.momentum > 0
    /\ sgd.velocity_weights = <<>>
    /\ \E k \in DenseIds : ~GradientsZero(layers[k])

\* ceil(n / b) for b >= 1
CeilDiv(n, b) == (n + b - 1) \div b

\* C29: for a dataset of n rows and batch_size b >= 1 the loop
\* for (it = begin(); it != end(); ++it) ends after exactly ceil(n / b)
\* iterations (none when n = 0), also when the last advance moves the cursor
\* past n, and every iteration sees a non-empty batch; with batch_size 0,
\* which the constructor accepts, the loop over a non-empty dataset never
\* reaches its end.
C29_LoopTerminates ==
    /\ (loader.batch_size >= 1) ~>
           (/\ loader.batch_size >= 1
            /\ EpochDone
            /\ Len(epoch.indices) = CeilDiv(Len(loader.dataset), loader.batch_size))
    /\ [](loader.batch_size >= 1 =>
              /\ Len(epoch.indices) <= CeilDiv(Len(loader.dataset), loader.batch_size)
              /\ \A k \in 1..Len(epoch.batches) :
                     epoch.batches[k] # <<>> /\ epoch.indices[k] # <<>>)
    /\ []((loader.batch_size = 0 /\ Len(loader.dataset) >= 1 /\ epoch.active) =>
              /\ cursor = 0
              /\ IteratorNotEqual(cursor, LoaderEnd(loader)))

\* a loop has ended with its cursor past the last row
C29_Witness ==
    /\ EpochDone
    /\ loader.batch_size = 3
    /\ Len(loader.dataset) = 4
    /\ cursor = 6
    /\ Len(epoch.indices) = 2

\* a loop with batch_size 0 has made as many turns as it was followed for
C29_ZeroBatchSizeReached ==
    /\ epoch.active
    /\ loader.batch_size = 0
    /\ Len(loader.dataset) >= 1
    /\ Len(epoch.indices) >= MaxRows

\* C30: with a MiniBatchGD optimizer of mini-batch size m >= 1 one train call
\* over N samples makes exactly ceil(N / m) updates, the gradients are cleared
\* after every update so that each sample's gradient enters exactly one of
\* them, the sample counter stays in [0, m) between samples, and when train
\* returns the counter is 0 and all gradients are zero.
C30_MiniBatchUpdates ==
    /\ [](optimizer.kind = "MiniBatchGD" =>
              /\ optimizer.sample_count >= 0
              /\ optimizer.sample_count < optimizer.mini_batch_size)
    /\ [][optimizer.kind = "MiniBatchGD" =>
              /\ training'.updates > training.updates => NoGradients(layers')
              /\ call'.op = "train:return" =>
                     /\ training'.updates =
                            CeilDiv(Len(training.samples), optimizer.mini_batch_size)
                     /\ optimizer'.sample_count = 0
                     /\ NoGradients(layers')]_vars

====
